---- MODULE Spec2Model ----
(***************************************************************************)
(* RedTeam-AI: the ReAct agent loop (redteamai/ai/agent.py) together with  *)
(* the message history it writes (redteamai/ai/message_history.py), the    *)
(* backend stream it consumes (redteamai/ai/base.py) and the tool executor *)
(* it calls (redteamai/tools/registry.py).                                 *)
(*                                                                         *)
(* Text is modelled by TLA+ strings: \o is Python's +, Len is len().       *)
(* One step of the agent runs from one suspension point of the coroutine   *)
(* (a yield or an await) to the next one.                                  *)
(***************************************************************************)
EXTENDS Integers, Sequences, FiniteSets, TLC

\* ------------------------------------------------------------------------
\* Bounds of the model
\* ------------------------------------------------------------------------
\* largest max_iterations a run is configured with
MaxIter == 2
\* number of chunks (text or ToolCall) the backend delivers during one run
MaxChunks == 2
\* longest stored history, in messages
MaxMessages == 4
\* largest token budget (MessageHistory.max_tokens) of a history that is pruned
MaxBudget == 6
\* lines of a streamed provider response
MaxLines == 3
\* <tool_call> tags in an accumulated text
MaxTags == 3

\* ------------------------------------------------------------------------
\* Program constants
\* ------------------------------------------------------------------------
\* agent.py:64
DANGEROUS_TOOLS == {"metasploit_exec", "exploit_run", "ffuf", "gobuster"}
\* message_history.py:28
TOOL_RESULT_CAP == 4000
\* message_history.py:10
DEFAULT_MAX_TOKENS == 8000
\* agent.py:152
CANCEL_TEXT == "User cancelled execution."
\* str(e) of the RuntimeError of run_until_complete (ai_worker.py:35-38)
LOOP_STOPPED == "Event loop stopped before Future completed."

\* ------------------------------------------------------------------------
\* Values the environment supplies
\* ------------------------------------------------------------------------
\* tool-call arguments as decoded JSON: a mapping of strings or a list
DictArgs == [kind |-> "dict", keys |-> <<"target">>, vals |-> <<"t">>]
ListArgs == [kind |-> "list", keys |-> <<>>, vals |-> <<"t">>]
NoArgs == [kind |-> "none", keys |-> <<>>, vals |-> <<>>]
\* base.py ToolCall: the tool calls a stream delivers. Ids repeat across
\* calls (ollama_backend.py:154 takes the provider's id), arguments need
\* not be a mapping (ollama_backend.py:150-152, 177).
ToolCall ==
    { [id |-> "c1", name |-> "nmap", arguments |-> DictArgs],
      [id |-> "c2", name |-> "nmap", arguments |-> DictArgs],
      [id |-> "c1", name |-> "ffuf", arguments |-> DictArgs],
      [id |-> "c2", name |-> "ffuf", arguments |-> ListArgs],
      [id |-> "c1", name |-> "nmap", arguments |-> ListArgs] }
\* text chunks a stream can deliver
TextChunks == {"", "a", "b"}
UserMessages == {"hi"}
\* what an executor returns, and the message of what it raises
ExecReturns == {"out", "[Error] Unknown tool"}
ExecRaises == {"boom"}
\* str(e) of what stream_chat raises: the RuntimeError of
\* ollama_backend.py:158-159, the JSONDecodeError of json.loads at line 152
StreamErrors == {"Ollama streaming failed: timed out",
                 "Expecting value: line 1 column 1 (char 0)"}

\* ------------------------------------------------------------------------
\* Pure helpers
\* ------------------------------------------------------------------------
Min(a, b) == IF a <= b THEN a ELSE b

\* " ".join / ", ".join of a sequence of strings
RECURSIVE Join(_, _)
Join(parts, sep) ==
    IF parts = <<>> THEN ""
    ELSE IF Len(parts) = 1 THEN parts[1]
    ELSE parts[1] \o sep \o Join(Tail(parts), sep)

\* json.dumps of an arguments value (agent.py:130)
\* the i-th character of s, "" beyond its end
Ch(s, i) == IF i >= 1 /\ i <= Len(s) THEN SubSeq(s, i, i) ELSE ""

\* json.dumps of a str: quotes and backslashes are escaped
RECURSIVE JsonEscape(_)
JsonEscape(s) ==
    IF s = "" THEN ""
    ELSE LET c == Ch(s, 1)
             e == IF c = "\"" THEN "\\\"" ELSE IF c = "\\" THEN "\\\\" ELSE c
         IN e \o JsonEscape(SubSeq(s, 2, Len(s)))

JsonString(s) == "\"" \o JsonEscape(s) \o "\""

\* mutant: strings are written without escaping
JsonDumps_raw(a) ==
    IF a.kind = "dict"
    THEN "{" \o Join([i \in 1..Len(a.keys) |->
                        "\"" \o a.keys[i] \o "\": \"" \o a.vals[i] \o "\""], ", ") \o "}"
    ELSE "[" \o Join([i \in 1..Len(a.vals) |-> "\"" \o a.vals[i] \o "\""], ", ") \o "]"

JsonDumps(a) ==
    IF a.kind = "dict"
    THEN "{" \o Join([i \in 1..Len(a.keys) |->
                        JsonString(a.keys[i]) \o ": " \o JsonString(a.vals[i])], ", ") \o "}"
    ELSE "[" \o Join([i \in 1..Len(a.vals) |-> JsonString(a.vals[i])], ", ") \o "]"

\* json.loads of a document that is an object of strings or a list of
\* strings: [ok |-> FALSE] stands for JSONDecodeError
JsonFail == [ok |-> FALSE, value |-> NoArgs]

RECURSIVE SkipWs(_, _)
SkipWs(s, i) == IF Ch(s, i) \in {" ", "\n", "\t"} THEN SkipWs(s, i + 1) ELSE i

\* the string literal whose opening quote is before position i
RECURSIVE ScanString(_, _, _)
ScanString(s, i, acc) ==
    LET c == Ch(s, i) IN
    IF c = "" THEN [ok |-> FALSE, val |-> "", next |-> i]
    ELSE IF c = "\"" THEN [ok |-> TRUE, val |-> acc, next |-> i + 1]
    ELSE IF c = "\\"
         THEN LET e == Ch(s, i + 1) IN
              IF e \in {"\"", "\\", "/"} THEN ScanString(s, i + 2, acc \o e)
              ELSE IF e = "n" THEN ScanString(s, i + 2, acc \o "\n")
              ELSE IF e = "t" THEN ScanString(s, i + 2, acc \o "\t")
              ELSE [ok |-> FALSE, val |-> "", next |-> i]
    ELSE ScanString(s, i + 1, acc \o c)

\* a dict assignment d[k] = v: a repeated key keeps its place
PutKey(a, k, v) ==
    IF \E i \in 1..Len(a.keys) : a.keys[i] = k
    THEN [a EXCEPT !.vals = [i \in 1..Len(a.keys) |-> IF a.keys[i] = k THEN v ELSE a.vals[i]]]
    ELSE [a EXCEPT !.keys = Append(@, k), !.vals = Append(@, v)]

\* the document ends after position i - 1
AtEnd(s, i) == SkipWs(s, i) > Len(s)

RECURSIVE ParseMembers(_, _, _)
ParseMembers(s, i, a) ==
    IF Ch(s, i) # "\"" THEN JsonFail
    ELSE LET k == ScanString(s, i + 1, "")
             c == SkipWs(s, k.next)
             q == SkipWs(s, c + 1)
             v == ScanString(s, q + 1, "")
             e == SkipWs(s, v.next)
         IN IF ~k.ok \/ Ch(s, c) # ":" \/ Ch(s, q) # "\"" \/ ~v.ok THEN JsonFail
            ELSE IF Ch(s, e) = "," THEN ParseMembers(s, SkipWs(s, e + 1), PutKey(a, k.val, v.val))
            ELSE IF Ch(s, e) = "}" /\ AtEnd(s, e + 1)
                 THEN [ok |-> TRUE, value |-> PutKey(a, k.val, v.val)]
            ELSE JsonFail

RECURSIVE ParseElements(_, _, _)
ParseElements(s, i, a) ==
    IF Ch(s, i) # "\"" THEN JsonFail
    ELSE LET v == ScanString(s, i + 1, "")
             e == SkipWs(s, v.next)
         IN IF ~v.ok THEN JsonFail
            ELSE IF Ch(s, e) = ","
                 THEN ParseElements(s, SkipWs(s, e + 1), [a EXCEPT !.vals = Append(@, v.val)])
            ELSE IF Ch(s, e) = "]" /\ AtEnd(s, e + 1)
                 THEN [ok |-> TRUE, value |-> [a EXCEPT !.vals = Append(@, v.val)]]
            ELSE JsonFail

JsonLoads(s) ==
    LET i == SkipWs(s, 1)
        j == SkipWs(s, i + 1)
        dict == [kind |-> "dict", keys |-> <<>>, vals |-> <<>>]
        list == [kind |-> "list", keys |-> <<>>, vals |-> <<>>]
    IN IF Ch(s, i) = "{"
       THEN IF Ch(s, j) = "}"
            THEN IF AtEnd(s, j + 1) THEN [ok |-> TRUE, value |-> dict] ELSE JsonFail
            ELSE ParseMembers(s, j, dict)
       ELSE IF Ch(s, i) = "["
       THEN IF Ch(s, j) = "]"
            THEN IF AtEnd(s, j + 1) THEN [ok |-> TRUE, value |-> list] ELSE JsonFail
            ELSE ParseElements(s, j, list)
       ELSE JsonFail

\* the empty mapping {}
EmptyArgs == [kind |-> "dict", keys |-> <<>>, vals |-> <<>>]

\* dict.pop(key, None) and dict.get(key, default)
Pop(dict, keys) == [k \in DOMAIN dict \ keys |-> dict[k]]
Get(dict, key, default) == IF key \in DOMAIN dict THEN dict[key] ELSE default

\* _format_cmd_preview raises AttributeError when args has no .items()
FormatPreviewRaises(args) == args.kind # "dict"
PREVIEW_ERROR == "'list' object has no attribute 'items'"

\* _format_cmd_preview (agent.py:189-192): name(k='v' k='v')
_format_cmd_preview(tool_name, args) ==
    tool_name \o "(" \o
    Join([i \in 1..Len(args.keys) |-> args.keys[i] \o "='" \o args.vals[i] \o "'"], " ")
    \o ")"

\* the iteration-cap marker (agent.py:178)
CapMarker(n) == "\n\n*[Agent reached max iterations (" \o ToString(n) \o ")]*"

\* ------------------------------------------------------------------------
\* MessageHistory (message_history.py)
\* ------------------------------------------------------------------------
\* a stored message; tool_calls = <<>> and "" stand for an absent key
Msg(role, content, tool_calls, tool_call_id, name) ==
    [role |-> role, content |-> content, tool_calls |-> tool_calls,
     tool_call_id |-> tool_call_id, name |-> name]

add_user(h, content) ==
    [h EXCEPT !.messages = Append(@, Msg("user", content, <<>>, "", ""))]

add_assistant(h, content, tool_calls) ==
    [h EXCEPT !.messages = Append(@, Msg("assistant", content, tool_calls, "", ""))]

\* mutant: the last 4000 characters are kept
Truncate_tail(content) ==
    SubSeq(content, Len(content) - Min(Len(content), TOOL_RESULT_CAP) + 1, Len(content))

Truncate(content) == SubSeq(content, 1, Min(Len(content), TOOL_RESULT_CAP))

add_tool_result(h, tool_call_id, tool_name, content) ==
    [h EXCEPT !.messages =
        Append(@, Msg("tool", Truncate(content), <<>>, tool_call_id, tool_name))]

RECURSIVE SumContent(_)
SumContent(msgs) ==
    IF msgs = <<>> THEN 0 ELSE (Len(Head(msgs).content) \div 4) + SumContent(Tail(msgs))

\* mutant: the system prompt is not counted
_estimate_tokens_noprompt(h) == SumContent(h.messages)

_estimate_tokens(h) == (Len(h.system_prompt) \div 4) + SumContent(h.messages)

\* mutant: the loop goes on down to one message
RECURSIVE prune_keep1(_)
prune_keep1(h) ==
    IF _estimate_tokens(h) > h.max_tokens /\ Len(h.messages) > 1
    THEN prune_keep1([h EXCEPT !.messages = Tail(@)])
    ELSE h

\* mutant: pop() instead of pop(0)
RECURSIVE prune_back(_)
prune_back(h) ==
    IF _estimate_tokens(h) > h.max_tokens /\ Len(h.messages) > 2
    THEN prune_back([h EXCEPT !.messages = SubSeq(@, 1, Len(@) - 1)])
    ELSE h

RECURSIVE prune(_)
prune(h) ==
    IF _estimate_tokens(h) > h.max_tokens /\ Len(h.messages) > 2
    THEN prune([h EXCEPT !.messages = Tail(@)])
    ELSE h

\* mutant: a system message is prepended whatever the prompt is
get_messages_always(h) ==
    <<Msg("system", h.system_prompt, <<>>, "", "")>> \o h.messages

get_messages(h) ==
    IF h.system_prompt # ""
    THEN <<Msg("system", h.system_prompt, <<>>, "", "")>> \o h.messages
    ELSE h.messages

\* ------------------------------------------------------------------------
\* AgentEvent (agent.py:18-61); unused fields hold "", 0, FALSE or NoArgs.
\* gate is the identity of the ConfirmationRequiredEvent's confirm_event;
\* call_no numbers the tool calls of the run in the order they are handled.
\* ------------------------------------------------------------------------
Ev(type, text, tool_name, call_id, arguments, error, its, gate, no) ==
    [type |-> type, text |-> text, tool_name |-> tool_name, call_id |-> call_id,
     arguments |-> arguments, error |-> error, iterations |-> its,
     gate |-> gate, call_no |-> no]

TextChunkEvent(text) == Ev("TextChunk", text, "", "", NoArgs, FALSE, 0, 0, 0)

ToolCallEvent(tc, no) == Ev("ToolCall", "", tc.name, tc.id, tc.arguments, FALSE, 0, 0, no)

ToolResultEvent(tc, out, error, no) ==
    Ev("ToolResult", out, tc.name, tc.id, NoArgs, error, 0, 0, no)

ConfirmationRequiredEvent(tc, command, gate, no) ==
    Ev("ConfirmationRequired", command, tc.name, tc.id, NoArgs, FALSE, 0, gate, no)

AgentDoneEvent(final, its) == Ev("AgentDone", final, "", "", NoArgs, FALSE, its, 0, 0)

AgentErrorEvent(error) == Ev("AgentError", error, "", "", NoArgs, FALSE, 0, 0, 0)

\* a fresh asyncio.Event with confirmed = False (agent.py:45-46). loop_woken
\* tells whether the worker thread's event loop has been made to run the
\* waiter of the event since the event was set.
\* mutant: the event is made with a gate that is already resolved
NewGate_resolved == [is_set |-> TRUE, confirmed |-> TRUE, loop_woken |-> TRUE]

NewGate == [is_set |-> FALSE, confirmed |-> FALSE, loop_woken |-> FALSE]

\* ------------------------------------------------------------------------
\* Decisions of RedTeamAgent.run
\* ------------------------------------------------------------------------
\* agent.py:99  while iterations < self.max_iterations
LoopContinues(its, max) == its < max

\* mutant: `ffuf` and `gobuster` are missing from the dangerous set
NeedsConfirmation_short(require, name) ==
    require /\ name \in {"metasploit_exec", "exploit_run"}

\* mutant: the configuration flag is not consulted
NeedsConfirmation_noflag(require, name) == name \in DANGEROUS_TOOLS

\* agent.py:141  if self.require_confirm and tc.name in DANGEROUS_TOOLS
NeedsConfirmation(require, name) == require /\ name \in DANGEROUS_TOOLS

\* mutant: the gate's state is read instead of the decision
Declined_isset(gate) == ~gate.is_set

\* agent.py:151  if not confirm_evt.confirmed
Declined(gate) == ~gate.confirmed

\* mutant: line 118 without `and accumulated_text`
StreamEndBranch_anytext(text, tcs) ==
    IF tcs = <<>> THEN "final" ELSE "act"

\* mutant: text is tested before tool calls
StreamEndBranch_textfirst(text, tcs) ==
    IF text # "" THEN "final"
    ELSE IF tcs # <<>> THEN "act"
    ELSE "empty"

\* agent.py:118-174: what the loop does once the stream has ended
StreamEndBranch(text, tcs) ==
    IF tcs = <<>> /\ text # "" THEN "final"
    ELSE IF tcs # <<>> THEN "act"
    ELSE "empty"

\* agent.py:126-133
tc_dicts(tcs) ==
    [i \in 1..Len(tcs) |->
        [id |-> tcs[i].id, type |-> "function",
         function |-> [name |-> tcs[i].name, arguments |-> JsonDumps(tcs[i].arguments)]]]

\* mutant: the chunk is put in front of the text
Accumulate_prepend(text, chunk) == chunk \o text

\* agent.py:112  accumulated_text += chunk
Accumulate(text, chunk) == text \o chunk

\* mutant: the handler around the executor catches nothing
ToolExceptionCaught_none(e) == FALSE

\* agent.py:162  except Exception: every exception class of ExecRaises is caught
ToolExceptionCaught(e) == e \in ExecRaises

\* agent.py:163
ToolErrorOutput(e) == "Tool error: " \o e

\* mutant: the declined branch yields nothing
CancelEvents_silent(tc, no) == <<>>

\* agent.py:153: what the declined branch yields
CancelEvents(tc, no) == <<ToolResultEvent(tc, CANCEL_TEXT, TRUE, no)>>

\* mutant: the handler reports a fixed text instead of str(e)
FailureEvents_generic(error, final, its) == <<AgentErrorEvent("Agent failed")>>

\* mutant: the handler's `return` is missing, AgentDoneEvent follows
FailureEvents_noreturn(error, final, its) ==
    <<AgentErrorEvent(error), AgentDoneEvent(final, its)>>

\* agent.py:182-185: what the top-level handler yields before it returns
FailureEvents(error, final, its) == <<AgentErrorEvent(error)>>

\* registry.py:69-74 called as tool_executor(n, a): execute(name, **arguments)
\* raises TypeError for arguments that are no mapping; otherwise it returns
\* a string or raises (a key of arguments colliding with `name`).
ExecutorCanReturn(args) == args.kind = "dict"

\* ------------------------------------------------------------------------
\* State
\* ------------------------------------------------------------------------
VARIABLES
    max_iterations,      \* RedTeamAgent.max_iterations
    require_confirm,     \* RedTeamAgent.require_confirm
    history,             \* RedTeamAgent.history (a MessageHistory)
    pc,                  \* where the coroutine run() is suspended
    iterations,          \* local of run()
    final_response,      \* local of run()
    accumulated_text,    \* local of run()
    tool_calls_received, \* local of run()
    tc_idx,              \* position of the for loop over tool_calls_received
    output,              \* local of run(): output of the current tool call
    events,              \* the events run() has yielded, in order
    gates,               \* the confirmation gates created, in order
    stream_calls,        \* number of backend.stream_chat calls started
    chunks_sent,         \* chunks the backend has delivered in this run
    stream_log,          \* what each stream_chat call has delivered so far
    exec_log,            \* invocations of tool_executor and their outcomes
    in_flight,           \* tool executions started and not yet finished
    call_no,             \* tool calls of the run handled so far
    late_signals,        \* signals AIWorker emitted after stop() was requested
    wire                 \* the backend call on the wire: the backend variant,
                         \* what the provider answers, what the call returned

vars == <<max_iterations, require_confirm, history, pc, iterations, final_response,
          accumulated_text, tool_calls_received, tc_idx, output, events, gates,
          stream_calls, chunks_sent, stream_log, exec_log, in_flight, call_no,
          late_signals, wire>>

config == <<max_iterations, require_confirm>>
locals == <<iterations, final_response, accumulated_text, tool_calls_received, tc_idx, output>>
backend == <<stream_calls, chunks_sent, stream_log>>
executor == <<exec_log, in_flight>>
worker == <<late_signals>>
provider == <<wire>>

\* no provider exchange is looked at
NoExchange == [variant |-> "any", op |-> "none"]

\* the coroutine is suspended at a yield or an await
SuspensionPoints == {"await_chunk", "yielded_tool_call", "await_gate", "await_exec",
                     "yielded_result", "yielded_cancel", "yielded_cap"}

Init ==
    /\ max_iterations \in 0..MaxIter
    /\ require_confirm \in BOOLEAN
    /\ history = [max_tokens |-> DEFAULT_MAX_TOKENS, system_prompt |-> "sys", messages |-> <<>>]
    /\ pc = "start"
    /\ iterations = 0
    /\ final_response = ""
    /\ accumulated_text = ""
    /\ tool_calls_received = <<>>
    /\ tc_idx = 0
    /\ output = ""
    /\ events = <<>>
    /\ gates = <<>>
    /\ stream_calls = 0
    /\ chunks_sent = 0
    /\ stream_log = <<>>
    /\ exec_log = <<>>
    /\ in_flight = 0
    /\ call_no = 0
    /\ late_signals = <<>>
    /\ wire = NoExchange

CurrentCall == tool_calls_received[tc_idx]

\* ------------------------------------------------------------------------
\* RedTeamAgent.run (agent.py:90-187)
\* ------------------------------------------------------------------------
\* run() is called: add_user, prune, locals initialised (agent.py:92-96)
Run ==
    /\ pc = "start"
    /\ \E m \in UserMessages : history' = prune(add_user(history, m))
    /\ final_response' = ""
    /\ iterations' = 0
    /\ pc' = "loop_head"
    /\ UNCHANGED <<config, worker, provider, accumulated_text, tool_calls_received, tc_idx, output,
                   events, gates, backend, executor, call_no>>

\* mutant: the text of the iteration before is kept
LoopEnter_keeptext ==
    /\ pc = "loop_head"
    /\ LoopContinues(iterations, max_iterations)
    /\ iterations' = iterations + 1
    /\ accumulated_text' = accumulated_text
    /\ tool_calls_received' = <<>>
    /\ stream_calls' = stream_calls + 1
    /\ stream_log' = Append(stream_log, [messages |-> get_messages(history),
                                         texts |-> <<>>, tcs |-> <<>>, status |-> "open",
                                         error |-> ""])
    /\ pc' = "await_chunk"
    /\ UNCHANGED <<config, worker, provider, history, final_response, tc_idx, output, events, gates,
                   chunks_sent, executor, call_no>>

\* agent.py:99-110: the loop is entered and stream_chat is called with
\* history.get_messages(); the coroutine awaits the first chunk
LoopEnter ==
    /\ pc = "loop_head"
    /\ LoopContinues(iterations, max_iterations)
    /\ iterations' = iterations + 1
    /\ accumulated_text' = ""
    /\ tool_calls_received' = <<>>
    /\ stream_calls' = stream_calls + 1
    /\ stream_log' = Append(stream_log, [messages |-> get_messages(history),
                                         texts |-> <<>>, tcs |-> <<>>, status |-> "open",
                                         error |-> ""])
    /\ pc' = "await_chunk"
    /\ UNCHANGED <<config, worker, provider, history, final_response, tc_idx, output, events, gates,
                   chunks_sent, executor, call_no>>

\* agent.py:176-179: the while condition fails, the marker is yielded
LoopExhausted ==
    /\ pc = "loop_head"
    /\ ~LoopContinues(iterations, max_iterations)
    /\ events' = Append(events, TextChunkEvent(CapMarker(max_iterations)))
    /\ pc' = "yielded_cap"
    /\ UNCHANGED <<config, worker, provider, history, locals, gates, backend, executor, call_no>>

\* agent.py:180,187: resumed after the marker, AgentDoneEvent is yielded
ResumeAfterCap ==
    /\ pc = "yielded_cap"
    /\ final_response' = final_response \o CapMarker(max_iterations)
    /\ events' = Append(events, AgentDoneEvent(final_response', iterations))
    /\ pc' = "done"
    /\ UNCHANGED <<config, worker, provider, history, iterations, accumulated_text, tool_calls_received,
                   tc_idx, output, gates, backend, executor, call_no>>

\* agent.py:111-113: the stream delivers a str chunk; it is yielded and the
\* coroutine, once resumed, awaits the next chunk
DeliverText(chunk) ==
    /\ pc = "await_chunk"
    /\ accumulated_text' = Accumulate(accumulated_text, chunk)
    /\ events' = Append(events, TextChunkEvent(chunk))
    /\ stream_log' = [stream_log EXCEPT ![Len(stream_log)].texts = Append(@, chunk)]
    /\ chunks_sent' = chunks_sent + 1
    /\ UNCHANGED <<config, worker, provider, history, pc, iterations, final_response, tool_calls_received,
                   tc_idx, output, gates, stream_calls, executor, call_no>>

StreamText ==
    /\ chunks_sent < MaxChunks
    /\ \E chunk \in TextChunks : DeliverText(chunk)

\* agent.py:114-115: the stream delivers a ToolCall
DeliverToolCall(tc) ==
    /\ pc = "await_chunk"
    /\ tool_calls_received' = Append(tool_calls_received, tc)
    /\ stream_log' = [stream_log EXCEPT ![Len(stream_log)].tcs = Append(@, tc)]
    /\ chunks_sent' = chunks_sent + 1
    /\ UNCHANGED <<config, worker, provider, history, pc, iterations, final_response, accumulated_text,
                   tc_idx, output, events, gates, stream_calls, executor, call_no>>

StreamToolCall ==
    /\ chunks_sent < MaxChunks
    /\ \E tc \in ToolCall : DeliverToolCall(tc)

\* stream_chat raises (ollama_backend.py:152, 158-159); agent.py:182-185
StreamFails(e) ==
    /\ pc = "await_chunk"
    /\ events' = events \o FailureEvents(e, final_response, iterations)
    /\ stream_log' = [stream_log EXCEPT ![Len(stream_log)].status = "raised",
                                        ![Len(stream_log)].error = e]
    /\ pc' = "done"
    /\ UNCHANGED <<config, worker, provider, history, locals, gates, stream_calls, chunks_sent,
                   executor, call_no>>

StreamRaises == \E e \in StreamErrors : StreamFails(e)

\* agent.py:117-138 and 171-174, 187: the stream is exhausted
StreamEnd ==
    /\ pc = "await_chunk"
    /\ LET branch == StreamEndBranch(accumulated_text, tool_calls_received) IN
       \/ /\ branch = "final"
          /\ final_response' = accumulated_text
          /\ history' = add_assistant(history, accumulated_text, <<>>)
          /\ events' = Append(events, AgentDoneEvent(accumulated_text, iterations))
          /\ pc' = "done"
          /\ UNCHANGED <<tc_idx, call_no>>
       \/ /\ branch = "act"
          /\ history' = add_assistant(history, accumulated_text, tc_dicts(tool_calls_received))
          /\ tc_idx' = 1
          /\ call_no' = call_no + 1
          /\ events' = Append(events, ToolCallEvent(tool_calls_received[1], call_no'))
          /\ pc' = "yielded_tool_call"
          /\ UNCHANGED final_response
       \/ /\ branch = "empty"
          /\ final_response' = accumulated_text
          /\ events' = Append(events, AgentDoneEvent(accumulated_text, iterations))
          /\ pc' = "done"
          /\ UNCHANGED <<history, tc_idx, call_no>>
    /\ stream_log' = [stream_log EXCEPT ![Len(stream_log)].status = "ended"]
    /\ UNCHANGED <<config, worker, provider, iterations, accumulated_text, tool_calls_received, output,
                   gates, stream_calls, chunks_sent, executor>>

\* agent.py:158-160: run_in_executor starts tool_executor(n, a)
StartExecutor ==
    /\ exec_log' = Append(exec_log, [name |-> CurrentCall.name,
                                     arguments |-> CurrentCall.arguments,
                                     call_id |-> CurrentCall.id,
                                     call_no |-> call_no,
                                     status |-> "running", value |-> ""])
    /\ in_flight' = in_flight + 1
    /\ pc' = "await_exec"

\* agent.py:141-160: resumed after ToolCallEvent
ResumeAfterToolCall ==
    /\ pc = "yielded_tool_call"
    /\ IF NeedsConfirmation(require_confirm, CurrentCall.name)
       THEN IF FormatPreviewRaises(CurrentCall.arguments)
            THEN \* AttributeError reaches agent.py:182-185
                 /\ events' = events \o FailureEvents(PREVIEW_ERROR, final_response, iterations)
                 /\ pc' = "done"
                 /\ UNCHANGED <<gates, executor>>
            ELSE /\ gates' = Append(gates, NewGate)
                 /\ events' = Append(events, ConfirmationRequiredEvent(CurrentCall,
                                  _format_cmd_preview(CurrentCall.name, CurrentCall.arguments),
                                  Len(gates'), call_no))
                 /\ pc' = "await_gate"
                 /\ UNCHANGED executor
       ELSE /\ StartExecutor
            /\ UNCHANGED <<events, gates>>
    /\ UNCHANGED <<config, worker, provider, history, locals, backend, call_no>>

\* main_window.py:331-335: the caller, in the GUI thread, writes its decision
\* and calls confirm_event.set(). asyncio.Event.set() is not thread-safe: it
\* completes the waiter's future, whose callback is queued with call_soon and
\* not with call_soon_threadsafe, so the event loop of the worker thread,
\* blocked in its selector, is not woken by it. The loop runs the waiter only
\* if it wakes for another reason: both outcomes are possible.
ResolveGate ==
    /\ pc = "await_gate"
    /\ ~gates[Len(gates)].is_set
    /\ \E c \in BOOLEAN, w \in BOOLEAN :
        gates' = [gates EXCEPT ![Len(gates)] =
                    [is_set |-> TRUE, confirmed |-> c, loop_woken |-> w]]
    /\ UNCHANGED <<config, worker, provider, history, pc, locals, events, backend, executor, call_no>>

\* ai_worker.py:56 and agent.py:150-160: the event loop runs the waiter,
\* confirm_event.wait() returns in the worker and then, at once, in run()
GateWakes ==
    /\ pc = "await_gate"
    /\ gates[Len(gates)].is_set
    /\ gates[Len(gates)].loop_woken
    /\ IF Declined(gates[Len(gates)])
       THEN /\ history' = add_tool_result(history, CurrentCall.id, CurrentCall.name, CANCEL_TEXT)
            /\ events' = events \o CancelEvents(CurrentCall, call_no)
            /\ pc' = "yielded_cancel"
            /\ UNCHANGED executor
       ELSE /\ StartExecutor
            /\ UNCHANGED <<history, events>>
    /\ UNCHANGED <<config, worker, provider, locals, gates, backend, call_no>>

\* agent.py:161,168: the executor returned one of `values`; ToolResultEvent
\* is yielded
ExecutorReturnsFrom(values) ==
    /\ pc = "await_exec"
    /\ ExecutorCanReturn(CurrentCall.arguments)
    /\ \E r \in values :
        /\ output' = r
        /\ events' = Append(events, ToolResultEvent(CurrentCall, r, FALSE, call_no))
        /\ exec_log' = [exec_log EXCEPT ![Len(exec_log)].status = "returned",
                                        ![Len(exec_log)].value = r]
    /\ in_flight' = in_flight - 1
    /\ pc' = "yielded_result"
    /\ UNCHANGED <<config, worker, provider, history, iterations, final_response, accumulated_text,
                   tool_calls_received, tc_idx, gates, backend, call_no>>

ExecutorReturns == ExecutorReturnsFrom(ExecReturns)

\* agent.py:162-164: the executor raised; an error ToolResultEvent is yielded
ExecutorRaises ==
    /\ pc = "await_exec"
    /\ \E e \in ExecRaises :
        /\ exec_log' = [exec_log EXCEPT ![Len(exec_log)].status = "raised",
                                        ![Len(exec_log)].value = e]
        /\ IF ToolExceptionCaught(e)
           THEN /\ output' = ToolErrorOutput(e)
                /\ events' = Append(events, ToolResultEvent(CurrentCall, output', TRUE, call_no))
                /\ pc' = "yielded_result"
           ELSE \* the exception reaches agent.py:182-185
                /\ events' = events \o FailureEvents(e, final_response, iterations)
                /\ pc' = "done"
                /\ UNCHANGED output
    /\ in_flight' = in_flight - 1
    /\ UNCHANGED <<config, worker, provider, history, iterations, final_response, accumulated_text,
                   tool_calls_received, tc_idx, gates, backend, call_no>>

\* agent.py:137-138: the for loop takes the next tool call and yields its
\* ToolCallEvent, or ends and control is back at the while condition
NextToolCall ==
    IF tc_idx < Len(tool_calls_received)
    THEN /\ tc_idx' = tc_idx + 1
         /\ call_no' = call_no + 1
         /\ events' = Append(events, ToolCallEvent(tool_calls_received[tc_idx'], call_no'))
         /\ pc' = "yielded_tool_call"
    ELSE /\ pc' = "loop_head"
         /\ UNCHANGED <<tc_idx, call_no, events>>

\* agent.py:165-166 and 169: resumed after ToolResultEvent, the result is stored
ResumeAfterResult ==
    /\ pc = "yielded_result"
    /\ history' = add_tool_result(history, CurrentCall.id, CurrentCall.name, output)
    /\ NextToolCall
    /\ UNCHANGED <<config, worker, provider, iterations, final_response, accumulated_text,
                   tool_calls_received, output, gates, backend, executor>>

\* agent.py:154: resumed after the cancelled ToolResultEvent, `continue`
ResumeAfterCancel ==
    /\ pc = "yielded_cancel"
    /\ NextToolCall
    /\ UNCHANGED <<config, worker, provider, history, iterations, final_response, accumulated_text,
                   tool_calls_received, output, gates, backend, executor>>

\* mutant: a teardown that stores the text streamed so far
Teardown_flush ==
    /\ pc \in SuspensionPoints
    /\ pc' = "torn_down"
    /\ history' = IF pc = "await_chunk"
                  THEN add_assistant(history, accumulated_text, <<>>)
                  ELSE history
    /\ UNCHANGED <<config, worker, provider, locals, events, gates, backend, executor, call_no>>

\* ai_worker.py:64-68: the caller stops the loop that drives run(); the
\* coroutine is never resumed from the point where it is suspended
Teardown ==
    /\ pc \in SuspensionPoints
    /\ pc' = "torn_down"
    /\ UNCHANGED <<config, worker, provider, history, locals, events, gates, backend, executor, call_no>>

\* ai_worker.py:35-40: run_until_complete finds its loop stopped before the
\* task is done and raises RuntimeError; AIWorker.run catches it and emits
\* the error signal, then closes the loop and the thread ends
WorkerRunExcepts ==
    /\ pc = "torn_down"
    /\ late_signals' = Append(late_signals, [name |-> "error", text |-> LOOP_STOPPED])
    /\ pc' = "worker_exited"
    /\ UNCHANGED <<config, provider, history, locals, events, gates, backend, executor,
                   call_no>>

Next ==
    \/ Run
    \/ LoopEnter
    \/ LoopExhausted
    \/ ResumeAfterCap
    \/ StreamText
    \/ StreamToolCall
    \/ StreamRaises
    \/ StreamEnd
    \/ ResumeAfterToolCall
    \/ ResolveGate
    \/ GateWakes
    \/ ExecutorReturns
    \/ ExecutorRaises
    \/ ResumeAfterResult
    \/ ResumeAfterCancel
    \/ Teardown
    \/ WorkerRunExcepts

Spec == Init /\ [][Next]_vars

\* the steps of a run that its caller does not stop
RunNext ==
    \/ Run
    \/ LoopEnter
    \/ LoopExhausted
    \/ ResumeAfterCap
    \/ StreamText
    \/ StreamToolCall
    \/ StreamRaises
    \/ StreamEnd
    \/ ResumeAfterToolCall
    \/ ResolveGate
    \/ GateWakes
    \/ ExecutorReturns
    \/ ExecutorRaises
    \/ ResumeAfterResult
    \/ ResumeAfterCancel

\* the consumer resumes the generator after every event (ai_worker.py:50-57),
\* every stream ends or raises, every execution returns or raises and the
\* caller resolves every gate: a step that can be taken is taken
LiveSpec == Init /\ [][RunNext]_vars /\ WF_vars(RunNext)

\* ------------------------------------------------------------------------
\* MessageHistory on its own: prune() applied to any history, and the
\* sequence of history operations of successive runs on one MessageHistory
\* ------------------------------------------------------------------------
\* budgets and system prompts a MessageHistory is built with
\* (message_history.py:10-11, main_window.py:295-298)
Budgets == 0..MaxBudget
Prompts == {"", "sys", "system prompt"}

\* messages a stored history is made of, with contents of 0, 1, 5 and 6
\* estimated tokens
StoredMessages ==
    { Msg("user", "hi", <<>>, "", ""),
      Msg("assistant", "done", <<>>, "", ""),
      Msg("tool", "[Error] Unknown tool", <<>>, "c1", "nmap"),
      Msg("tool", CANCEL_TEXT, <<>>, "c2", "ffuf") }

Histories ==
    [max_tokens : Budgets, system_prompt : Prompts,
     messages : UNION {[1..n -> StoredMessages] : n \in 0..MaxMessages}]

\* the agent has not run: every variable but history is as constructed
AgentAtRest ==
    /\ max_iterations = MaxIter
    /\ require_confirm = FALSE
    /\ pc = "start"
    /\ iterations = 0
    /\ final_response = ""
    /\ accumulated_text = ""
    /\ tool_calls_received = <<>>
    /\ tc_idx = 0
    /\ output = ""
    /\ events = <<>>
    /\ gates = <<>>
    /\ stream_calls = 0
    /\ chunks_sent = 0
    /\ stream_log = <<>>
    /\ exec_log = <<>>
    /\ in_flight = 0
    /\ call_no = 0
    /\ late_signals = <<>>

\* what the history operations leave alone
rest == <<config, worker, provider, iterations, final_response, accumulated_text, output,
          events, gates, backend, executor, call_no>>

PruneInit ==
    /\ history \in Histories
    /\ AgentAtRest
    /\ wire = NoExchange

\* message_history.py:39-44: prune() is called on the history
ApplyPrune ==
    /\ pc = "start"
    /\ history' = prune(history)
    /\ pc' = "pruned"
    /\ UNCHANGED <<rest, tool_calls_received, tc_idx>>

\* prune() on its own, or as run() calls it after add_user (agent.py:92-93)
\* and reads the result with get_messages() for the backend (agent.py:99-104)
PruneNext ==
    \/ ApplyPrune
    \/ Run
    \/ LoopEnter

PruneSpec == PruneInit /\ [][PruneNext]_vars

HistoryInit ==
    /\ history \in [max_tokens : Budgets, system_prompt : Prompts, messages : {<<>>}]
    /\ AgentAtRest
    /\ wire = NoExchange

\* the tool calls of one assistant message
HistoryCalls ==
    UNION {[1..n -> {tc \in ToolCall : tc.name = "nmap" /\ tc.arguments = DictArgs}] :
              n \in 1..MaxChunks}

\* agent.py:92-93: a run starts on the history the earlier runs left
HistoryRun ==
    /\ Len(history.messages) < MaxMessages
    /\ Run

\* agent.py:118-122: the final answer is stored and the run is over
AppendFinal ==
    /\ pc = "loop_head"
    /\ Len(history.messages) < MaxMessages
    /\ history' = add_assistant(history, "done", <<>>)
    /\ pc' = "start"
    /\ UNCHANGED <<rest, tool_calls_received, tc_idx>>

\* agent.py:124-137: the assistant message with its tool calls is stored
AppendToolCalls ==
    /\ pc = "loop_head"
    /\ Len(history.messages) < MaxMessages
    /\ \E tcs \in HistoryCalls :
        /\ history' = add_assistant(history, "", tc_dicts(tcs))
        /\ tool_calls_received' = tcs
    /\ tc_idx' = 1
    /\ pc' = "yielded_tool_call"
    /\ UNCHANGED rest

\* mutant: the history is pruned after the tool message is stored
AppendToolResult_pruned ==
    /\ pc = "yielded_tool_call"
    /\ Len(history.messages) < MaxMessages
    /\ \E out \in ExecReturns \cup {ToolErrorOutput(e) : e \in ExecRaises} :
        history' = prune(add_tool_result(history, CurrentCall.id, CurrentCall.name, out))
    /\ IF tc_idx < Len(tool_calls_received)
       THEN tc_idx' = tc_idx + 1 /\ pc' = pc
       ELSE tc_idx' = tc_idx /\ pc' = "loop_head"
    /\ UNCHANGED <<rest, tool_calls_received>>

\* agent.py:165, 169: the tool message of the current call is stored;
\* the for loop takes the next call or control is back at the while loop
AppendToolResult ==
    /\ pc = "yielded_tool_call"
    /\ Len(history.messages) < MaxMessages
    /\ \E out \in ExecReturns \cup {ToolErrorOutput(e) : e \in ExecRaises} :
        history' = add_tool_result(history, CurrentCall.id, CurrentCall.name, out)
    /\ IF tc_idx < Len(tool_calls_received)
       THEN tc_idx' = tc_idx + 1 /\ pc' = pc
       ELSE tc_idx' = tc_idx /\ pc' = "loop_head"
    /\ UNCHANGED <<rest, tool_calls_received>>

\* agent.py:171-187: the run ends without storing another message (an empty
\* stream, the iteration cap, a failure)
RunEnds ==
    /\ pc = "loop_head"
    /\ pc' = "start"
    /\ UNCHANGED <<rest, history, tool_calls_received, tc_idx>>

\* ai_worker.py:64-68: the caller stops the run after the tool calls were
\* stored and before the result of the current one is; the next run starts
\* on the history as it is
RunTornDown ==
    /\ pc = "yielded_tool_call"
    /\ pc' = "start"
    /\ UNCHANGED <<rest, history, tool_calls_received, tc_idx>>

HistoryNext ==
    \/ HistoryRun
    \/ AppendFinal
    \/ AppendToolCalls
    \/ AppendToolResult
    \/ RunEnds
    \/ RunTornDown

HistorySpec == HistoryInit /\ [][HistoryNext]_vars

\* ------------------------------------------------------------------------
\* Tool outputs around the storage cap: one tool call of a run is awaiting
\* its executor, which returns an output of any length
\* ------------------------------------------------------------------------
\* s repeated n times
RECURSIVE Repeat(_, _)
Repeat(s, n) ==
    IF n = 0 THEN ""
    ELSE LET half == Repeat(s, n \div 2)
         IN IF n % 2 = 0 THEN half \o half ELSE half \o half \o s

OutputLengths == {1, TOOL_RESULT_CAP - 1, TOOL_RESULT_CAP, TOOL_RESULT_CAP + 1,
                  2 * TOOL_RESULT_CAP}
\* outputs whose first, last and other characters differ
LongOutputs ==
    {""} \cup {Repeat("a", n) : n \in OutputLengths}
         \cup {Repeat("a", n - 1) \o "z" : n \in OutputLengths}
         \cup {"b" \o Repeat("a", n - 1) : n \in OutputLengths}

\* the state of a run whose first stream delivered the one tool call tc and
\* whose executor has been started for it (agent.py:92-160)
AwaitingExecutor(tc) ==
    /\ require_confirm = FALSE
    /\ history = add_assistant(
                    add_user([max_tokens |-> DEFAULT_MAX_TOKENS, system_prompt |-> "sys",
                              messages |-> <<>>], "hi"),
                    "", tc_dicts(<<tc>>))
    /\ pc = "await_exec"
    /\ iterations = 1
    /\ final_response = ""
    /\ accumulated_text = ""
    /\ tool_calls_received = <<tc>>
    /\ tc_idx = 1
    /\ output = ""
    /\ events = <<ToolCallEvent(tc, 1)>>
    /\ gates = <<>>
    /\ stream_calls = 1
    /\ chunks_sent = 1
    /\ stream_log = <<[messages |-> get_messages(add_user(
                            [max_tokens |-> DEFAULT_MAX_TOKENS, system_prompt |-> "sys",
                             messages |-> <<>>], "hi")),
                       texts |-> <<>>, tcs |-> <<tc>>, status |-> "ended", error |-> ""]>>
    /\ exec_log = <<[name |-> tc.name, arguments |-> tc.arguments, call_id |-> tc.id,
                     call_no |-> 1, status |-> "running", value |-> ""]>>
    /\ in_flight = 1
    /\ call_no = 1
    /\ late_signals = <<>>

OutputInit ==
    /\ max_iterations \in 1..MaxIter
    /\ wire = NoExchange
    /\ \E tc \in {c \in ToolCall : c.arguments = DictArgs} : AwaitingExecutor(tc)

ExecutorReturnsLong == ExecutorReturnsFrom(LongOutputs)

\* agent.py:161-169: the executor returns, the result is yielded and stored
OutputNext ==
    \/ ExecutorReturnsLong
    \/ ResumeAfterResult

OutputSpec == OutputInit /\ [][OutputNext]_vars

\* ------------------------------------------------------------------------
\* Backends: stream_chat of each variant on what the provider sends
\* ------------------------------------------------------------------------
Variants == {"ollama", "groq", "openai_compat", "anthropic"}
SseVariants == {"groq", "openai_compat"}

\* a tool request as a model writes it: nmap on {"target": "t"}
REQUEST_JSON == "{\"name\": \"nmap\", \"arguments\": " \o JsonDumps(DictArgs) \o "}"
REQUEST_TAG == "<tool_call>" \o REQUEST_JSON \o "</tool_call>"
NATIVE_CALL == "{\"function\": {\"name\": \"nmap\", \"arguments\": " \o JsonDumps(DictArgs) \o "}}"
\* str(e) of json.loads("{oops") (ollama_backend.py:152)
JSON_ERROR == "Expecting property name enclosed in double quotes: line 1 column 2 (char 1)"
\* str(e) of chunk["choices"] and of [][0] (groq_backend.py:87)
KEY_ERROR == "'choices'"
INDEX_ERROR == "list index out of range"

\* NDJSON lines of the local-inference provider (ollama_backend.py:135)
O_TEXT == "{\"message\": {\"content\": \"a\"}}"
O_TAG == "{\"message\": {\"content\": " \o JsonString(REQUEST_TAG) \o "}}"
O_NATIVE == "{\"message\": {\"content\": \"\", \"tool_calls\": [" \o NATIVE_CALL \o "]}}"
O_NATIVE_STR ==
    "{\"message\": {\"tool_calls\": [{\"id\": \"c1\", \"function\": {\"name\": \"nmap\", "
        \o "\"arguments\": " \o JsonString(JsonDumps(DictArgs)) \o "}}]}}"
O_NATIVE_BAD ==
    "{\"message\": {\"tool_calls\": [{\"function\": {\"name\": \"nmap\", "
        \o "\"arguments\": \"{oops\"}}]}}"
O_BOTH ==
    "{\"message\": {\"content\": " \o JsonString(REQUEST_TAG) \o ", \"tool_calls\": ["
        \o NATIVE_CALL \o "]}}"
O_BLANK == "  "
O_UNDECODABLE == "{\"message\":"
O_DONE == "{\"done\": true}"
OllamaLines ==
    {O_TEXT, O_TAG, O_NATIVE, O_NATIVE_STR, O_NATIVE_BAD, O_BOTH, O_BLANK, O_UNDECODABLE, O_DONE}

\* SSE lines of the OpenAI-style providers (groq_backend.py:77)
S_TEXT_A == "data: {\"choices\": [{\"delta\": {\"content\": \"a\"}}]}"
S_TEXT_B == "data: {\"choices\": [{\"delta\": {\"content\": \"b\"}}]}"
S_ROLE == "data: {\"choices\": [{\"delta\": {\"role\": \"assistant\"}}]}"
S_TOOL ==
    "data: {\"choices\": [{\"delta\": {\"tool_calls\": [{\"index\": 0, \"id\": \"c1\", "
        \o "\"function\": {\"name\": \"nmap\", \"arguments\": "
        \o JsonString(JsonDumps(DictArgs)) \o "}}]}}]}"
S_NO_CHOICES == "data: {\"id\": \"x\"}"
S_EMPTY_CHOICES == "data: {\"choices\": []}"
S_UNDECODABLE == "data: {\"choices\": ["
S_DONE == "data: [DONE]"
S_COMMENT == ": ping"
SseLines ==
    {S_TEXT_A, S_TEXT_B, S_ROLE, S_TOOL, S_NO_CHOICES, S_EMPTY_CHOICES, S_UNDECODABLE,
     S_DONE, S_COMMENT}

\* events of the hosted-model SDK's message stream (anthropic_backend.py:137)
A_TEXT_A == [type |-> "text", text |-> "a", id |-> "", name |-> "", input |-> NoArgs]
A_TEXT_B == [type |-> "text", text |-> "b", id |-> "", name |-> "", input |-> NoArgs]
A_TOOL_USE == [type |-> "tool_use", text |-> "", id |-> "c1", name |-> "nmap", input |-> DictArgs]
AnthropicEvents == {A_TEXT_A, A_TEXT_B, A_TOOL_USE}

\* what a stream_chat generator hands to its consumer, or raises
NoCall == [id |-> "", name |-> "", arguments |-> NoArgs]
TextItem(t) == [kind |-> "text", text |-> t, tc |-> NoCall]
ToolItem(tc) == [kind |-> "tool", text |-> "", tc |-> tc]
RaiseItem(e) == [kind |-> "raise", text |-> e, tc |-> NoCall]

\* json.loads(line) on the lines above (ollama_backend.py:139); a raw tool
\* call without "id" has id "", arguments that are a str are in args_text
RawCall(id, args_is_str, args_text, args) ==
    [id |-> id, name |-> "nmap", args_is_str |-> args_is_str, args_text |-> args_text,
     arguments |-> args]
OllamaChunk(content, tool_calls) ==
    [ok |-> TRUE, content |-> content, tool_calls |-> tool_calls]
OllamaJson(line) ==
    CASE line = O_TEXT -> OllamaChunk("a", <<>>)
      [] line = O_TAG -> OllamaChunk(REQUEST_TAG, <<>>)
      [] line = O_NATIVE -> OllamaChunk("", <<RawCall("", FALSE, "", DictArgs)>>)
      [] line = O_NATIVE_STR ->
            OllamaChunk("", <<RawCall("c1", TRUE, JsonDumps(DictArgs), NoArgs)>>)
      [] line = O_NATIVE_BAD -> OllamaChunk("", <<RawCall("", TRUE, "{oops", NoArgs)>>)
      [] line = O_BOTH -> OllamaChunk(REQUEST_TAG, <<RawCall("", FALSE, "", DictArgs)>>)
      [] line = O_DONE -> OllamaChunk("", <<>>)
      [] OTHER -> [ok |-> FALSE, content |-> "", tool_calls |-> <<>>]

\* json.loads(raw) on the payloads above (groq_backend.py:84)
SseChunk(has_choices, choices) == [ok |-> TRUE, has_choices |-> has_choices, choices |-> choices]
SseJson(raw) ==
    CASE "data: " \o raw = S_TEXT_A -> SseChunk(TRUE, <<[content |-> "a", tool_calls |-> 0]>>)
      [] "data: " \o raw = S_TEXT_B -> SseChunk(TRUE, <<[content |-> "b", tool_calls |-> 0]>>)
      [] "data: " \o raw = S_ROLE -> SseChunk(TRUE, <<[content |-> "", tool_calls |-> 0]>>)
      [] "data: " \o raw = S_TOOL -> SseChunk(TRUE, <<[content |-> "", tool_calls |-> 1]>>)
      [] "data: " \o raw = S_NO_CHOICES -> SseChunk(FALSE, <<>>)
      [] "data: " \o raw = S_EMPTY_CHOICES -> SseChunk(TRUE, <<>>)
      [] OTHER -> [ok |-> FALSE, has_choices |-> FALSE, choices |-> <<>>]

\* bodies of <tool_call> tags as a model writes them
T_ARGS == REQUEST_JSON
T_PARAMS == "{\"name\": \"nmap\", \"parameters\": " \o JsonDumps(DictArgs) \o "}"
T_BOTH_KEYS ==
    "{\"name\": \"whois\", \"parameters\": " \o JsonDumps(DictArgs)
        \o ", \"arguments\": {}}"
T_NEITHER == "{\"name\": \"whois\"}"
T_NO_NAME == "{\"arguments\": " \o JsonDumps(DictArgs) \o "}"
T_EMPTY_NAME == "{\"name\": \"\", \"arguments\": " \o JsonDumps(DictArgs) \o "}"
T_UNDECODABLE == "{\"name\": \"nmap\""
T_LIST == "[" \o REQUEST_JSON \o "]"
TagBodies ==
    {T_ARGS, T_PARAMS, T_BOTH_KEYS, T_NEITHER, T_NO_NAME, T_EMPTY_NAME, T_UNDECODABLE, T_LIST}

\* json.loads of the payload of a <tool_call> tag (ollama_backend.py:173):
\* `data` has the keys of the decoded object
TagJson(payload) ==
    CASE payload = T_ARGS ->
            [ok |-> TRUE, is_dict |-> TRUE, data |-> [name |-> "nmap", arguments |-> DictArgs]]
      [] payload = T_PARAMS ->
            [ok |-> TRUE, is_dict |-> TRUE, data |-> [name |-> "nmap", parameters |-> DictArgs]]
      [] payload = T_BOTH_KEYS ->
            [ok |-> TRUE, is_dict |-> TRUE,
             data |-> [name |-> "whois", parameters |-> DictArgs, arguments |-> EmptyArgs]]
      [] payload = T_NEITHER -> [ok |-> TRUE, is_dict |-> TRUE, data |-> [name |-> "whois"]]
      [] payload = T_NO_NAME ->
            [ok |-> TRUE, is_dict |-> TRUE, data |-> [arguments |-> DictArgs]]
      [] payload = T_EMPTY_NAME ->
            [ok |-> TRUE, is_dict |-> TRUE, data |-> [name |-> "", arguments |-> DictArgs]]
      [] payload = T_LIST -> [ok |-> TRUE, is_dict |-> FALSE, data |-> <<>>]
      [] OTHER -> [ok |-> FALSE, is_dict |-> FALSE, data |-> <<>>]
\* str(e) of [].get (ollama_backend.py:176)
ATTRIBUTE_ERROR == "'list' object has no attribute 'get'"

\* str.strip() and str.startswith()
RECURSIVE Strip(_)
Strip(s) ==
    IF s = "" THEN ""
    ELSE IF Ch(s, 1) \in {" ", "\n", "\t"} THEN Strip(SubSeq(s, 2, Len(s)))
    ELSE IF Ch(s, Len(s)) \in {" ", "\n", "\t"} THEN Strip(SubSeq(s, 1, Len(s) - 1))
    ELSE s
StartsWith(s, prefix) == Len(s) >= Len(prefix) /\ SubSeq(s, 1, Len(prefix)) = prefix

\* the first position >= from where pat occurs in s, 0 when there is none
RECURSIVE Find(_, _, _)
Find(s, pat, from) ==
    IF from + Len(pat) - 1 > Len(s) THEN 0
    ELSE IF SubSeq(s, from, from + Len(pat) - 1) = pat THEN from
    ELSE Find(s, pat, from + 1)

\* ollama_backend.py:167-183: every <tool_call>...</tool_call> of the text
\* whose payload decodes and names a tool; ids are fresh uuids. Only
\* JSONDecodeError and KeyError are caught (line 181): data.get of a
\* payload that is not an object leaves the function as an AttributeError
RECURSIVE ParseXmlFrom(_, _, _)
ParseXmlFrom(content, from, tool_calls) ==
    LET open == Find(content, "<tool_call>", from)
        close == IF open = 0 THEN 0 ELSE Find(content, "</tool_call>", open + 11)
    IN IF close = 0 THEN [raised |-> FALSE, error |-> "", tool_calls |-> tool_calls]
       ELSE LET json == TagJson(Strip(SubSeq(content, open + 11, close - 1)))
            IN IF ~json.ok THEN ParseXmlFrom(content, close + 12, tool_calls)
               ELSE IF ~json.is_dict
               THEN [raised |-> TRUE, error |-> ATTRIBUTE_ERROR, tool_calls |-> <<>>]
               ELSE LET tc == [id |-> "",
                               name |-> Get(json.data, "name", ""),
                               arguments |-> Get(json.data, "arguments",
                                                 Get(json.data, "parameters", EmptyArgs))]
                    IN ParseXmlFrom(content, close + 12,
                                    IF tc.name # "" THEN Append(tool_calls, tc)
                                    ELSE tool_calls)

_parse_xml_tool_calls(content) == ParseXmlFrom(content, 1, <<>>)

\* ollama_backend.py:146-156: the tool calls of one chunk, up to the one
\* whose str arguments json.loads rejects
RECURSIVE OllamaCalls(_)
OllamaCalls(raws) ==
    IF raws = <<>> THEN <<>>
    ELSE LET raw == Head(raws)
             args == IF raw.args_is_str THEN JsonLoads(raw.args_text)
                     ELSE [ok |-> TRUE, value |-> raw.arguments]
         IN IF ~args.ok THEN <<RaiseItem(JSON_ERROR)>>
            ELSE <<ToolItem([id |-> raw.id, name |-> raw.name, arguments |-> args.value])>>
                     \o OllamaCalls(Tail(raws))

\* ollama_backend.py:135-156: one line of the response
OllamaLine(line) ==
    IF Strip(line) = "" THEN <<>>
    ELSE LET chunk == OllamaJson(line) IN
         IF ~chunk.ok THEN <<>>
         ELSE (IF chunk.content # "" THEN <<TextItem(chunk.content)>> ELSE <<>>)
                  \o OllamaCalls(chunk.tool_calls)

Raised(items) == items # <<>> /\ items[Len(items)].kind = "raise"

\* the items of the lines up to the first that raises
RECURSIVE OllamaLoop(_)
OllamaLoop(lines) ==
    IF lines = <<>> THEN <<>>
    ELSE LET one == OllamaLine(Head(lines))
         IN IF Raised(one) THEN one ELSE one \o OllamaLoop(Tail(lines))

\* full_content: the tokens yielded, concatenated
RECURSIVE FullContent(_)
FullContent(items) ==
    IF items = <<>> THEN ""
    ELSE Head(items).text \o FullContent(Tail(items))

\* ollama_backend.py:161-164; the agent always passes its tools
\* (agent.py:109, main_window.py:302)
XmlFallback(items, use_xml_fallback) ==
    IF use_xml_fallback /\ FullContent(items) # ""
    THEN LET parsed == _parse_xml_tool_calls(FullContent(items))
         IN IF parsed.raised THEN <<RaiseItem(parsed.error)>>
            ELSE [i \in 1..Len(parsed.tool_calls) |-> ToolItem(parsed.tool_calls[i])]
    ELSE <<>>

\* uuid.uuid4() for every ToolCall made without an id
FreshIds(items) ==
    [i \in 1..Len(items) |->
        IF items[i].kind = "tool" /\ items[i].tc.id = ""
        THEN [items[i] EXCEPT !.tc.id = "uuid-" \o ToString(i)]
        ELSE items[i]]

\* ollama_backend.py:120-164
ollama_stream_chat(lines, use_xml_fallback) ==
    LET items == OllamaLoop(lines)
    IN FreshIds(IF Raised(items) THEN items
                ELSE items \o XmlFallback(items, use_xml_fallback))

\* groq_backend.py:78-90, openai_compat_backend.py:78-90: one line
SseLine(line) ==
    IF ~StartsWith(line, "data: ") THEN [stop |-> FALSE, items |-> <<>>]
    ELSE LET raw == SubSeq(line, 7, Len(line)) IN
         IF raw = "[DONE]" THEN [stop |-> TRUE, items |-> <<>>]
         ELSE LET chunk == SseJson(raw) IN
              IF ~chunk.ok THEN [stop |-> FALSE, items |-> <<>>]
              ELSE IF ~chunk.has_choices THEN [stop |-> TRUE, items |-> <<RaiseItem(KEY_ERROR)>>]
              ELSE IF chunk.choices = <<>>
                   THEN [stop |-> TRUE, items |-> <<RaiseItem(INDEX_ERROR)>>]
              ELSE [stop |-> FALSE,
                    items |-> IF chunk.choices[1].content # ""
                              THEN <<TextItem(chunk.choices[1].content)>> ELSE <<>>]

\* groq_backend.py:68-90, openai_compat_backend.py:69-90
RECURSIVE sse_stream_chat(_)
sse_stream_chat(lines) ==
    IF lines = <<>> THEN <<>>
    ELSE LET one == SseLine(Head(lines))
         IN IF one.stop THEN one.items ELSE one.items \o sse_stream_chat(Tail(lines))

\* anthropic_backend.py:137-139: text_stream yields the text of text events
RECURSIVE anthropic_stream_chat(_)
anthropic_stream_chat(evs) ==
    IF evs = <<>> THEN <<>>
    ELSE (IF Head(evs).type = "text" THEN <<TextItem(Head(evs).text)>> ELSE <<>>)
             \o anthropic_stream_chat(Tail(evs))

\* what stream_chat of the backend yields on the provider's response,
\* ending with what it raises if it raises
stream_chat(w) ==
    CASE w.variant = "ollama" -> ollama_stream_chat(w.lines, w.use_xml_fallback)
      [] w.variant \in SseVariants -> sse_stream_chat(w.lines)
      [] w.variant = "anthropic" -> anthropic_stream_chat(w.sdk_events)

SeqsUpTo(S, n) == UNION {[1..k -> S] : k \in 0..n}

\* a stream_chat call: the provider's response and, in `yields`, what the
\* generator hands over while it reads that response
StreamExchange(variant, xml, lines, evs) ==
    [variant |-> variant, op |-> "stream_chat", use_xml_fallback |-> xml, lines |-> lines,
     sdk_events |-> evs,
     yields |-> stream_chat([variant |-> variant, use_xml_fallback |-> xml, lines |-> lines,
                             sdk_events |-> evs])]
\* the responses a provider can stream
StreamExchanges ==
    {StreamExchange("ollama", x, l, <<>>) :
        x \in BOOLEAN, l \in SeqsUpTo(OllamaLines, MaxLines)}
    \cup {StreamExchange(v, FALSE, l, <<>>) : v \in SseVariants, l \in SeqsUpTo(SseLines, MaxLines)}
    \cup {StreamExchange("anthropic", FALSE, <<>>, e) : e \in SeqsUpTo(AnthropicEvents, MaxLines)}

\* a run of one iteration without confirmations on a backend whose provider
\* streams one of the responses
StreamInit ==
    /\ max_iterations = 1
    /\ require_confirm = FALSE
    /\ history = [max_tokens |-> DEFAULT_MAX_TOKENS, system_prompt |-> "sys", messages |-> <<>>]
    /\ pc = "start"
    /\ iterations = 0
    /\ final_response = ""
    /\ accumulated_text = ""
    /\ tool_calls_received = <<>>
    /\ tc_idx = 0
    /\ output = ""
    /\ events = <<>>
    /\ gates = <<>>
    /\ stream_calls = 0
    /\ chunks_sent = 0
    /\ stream_log = <<>>
    /\ exec_log = <<>>
    /\ in_flight = 0
    /\ call_no = 0
    /\ late_signals = <<>>
    /\ wire \in StreamExchanges

\* the items the open stream has handed over
Delivered == Len(stream_log[Len(stream_log)].texts) + Len(stream_log[Len(stream_log)].tcs)
NextItem == wire.yields[Delivered + 1]
HasNext == pc = "await_chunk" /\ Delivered < Len(wire.yields)

\* agent.py:107-115 on the backend's generator
WireText == HasNext /\ NextItem.kind = "text" /\ DeliverText(NextItem.text)
WireToolCall == HasNext /\ NextItem.kind = "tool" /\ DeliverToolCall(NextItem.tc)
WireRaises == HasNext /\ NextItem.kind = "raise" /\ StreamFails(NextItem.text)
WireEnds == pc = "await_chunk" /\ Delivered = Len(wire.yields) /\ StreamEnd

ExecutorReturnsOut == ExecutorReturnsFrom({"out"})

StreamNext ==
    \/ Run
    \/ LoopEnter
    \/ WireText
    \/ WireToolCall
    \/ WireRaises
    \/ WireEnds
    \/ ResumeAfterToolCall
    \/ ExecutorReturnsOut
    \/ ResumeAfterResult
    \/ LoopExhausted
    \/ ResumeAfterCap

StreamSpec == StreamInit /\ [][StreamNext]_vars

\* ------------------------------------------------------------------------
\* Backends: the textual fallback on an accumulated text
\* ------------------------------------------------------------------------
\* the text a model streamed: prose, then the tags one after the other, each
\* body on a line of its own when `padded`
RECURSIVE Render(_, _)
Render(tags, padded) ==
    IF tags = <<>> THEN ""
    ELSE "<tool_call>" \o (IF padded THEN "\n" \o Head(tags) \o "\n " ELSE Head(tags))
             \o "</tool_call>" \o (IF padded THEN "\n" ELSE "")
             \o Render(Tail(tags), padded)

NotParsed == [raised |-> FALSE, error |-> "not parsed", tool_calls |-> <<>>]

XmlExchanges ==
    {[variant |-> "ollama", op |-> "_parse_xml_tool_calls", tags |-> tags,
      content |-> lead \o Render(tags, padded), result |-> NotParsed] :
        tags \in SeqsUpTo(TagBodies, MaxTags), lead \in {"", "I will scan. "},
        padded \in BOOLEAN}

XmlInit ==
    /\ AgentAtRest
    /\ history = [max_tokens |-> DEFAULT_MAX_TOKENS, system_prompt |-> "sys", messages |-> <<>>]
    /\ wire \in XmlExchanges

\* ollama_backend.py:163: the fallback is applied to the accumulated text
ParseXml ==
    /\ wire.op = "_parse_xml_tool_calls"
    /\ wire.result = NotParsed
    /\ wire' = [wire EXCEPT !.result = _parse_xml_tool_calls(wire.content)]
    /\ UNCHANGED <<config, worker, history, locals, events, gates, backend, executor, pc,
                   call_no>>

XmlNext == ParseXml

XmlSpec == XmlInit /\ [][XmlNext]_vars

\* ------------------------------------------------------------------------
\* Backends: chat() and health_check() of each variant on one HTTP exchange
\* ------------------------------------------------------------------------
MODEL == "llama3"
HOST == "http://localhost:11434"
\* str(e) of httpx.ConnectError
CONNECT_TEXT == "All connection attempts failed"
Statuses == {200, 401, 404, 500}
\* str(e) of what Response.raise_for_status raises
StatusText(status) == "Client error '" \o ToString(status) \o "' for url"

\* response bodies
B_UNDECODABLE == "<html>Bad Gateway</html>"
B_ERROR == "{\"error\": \"x\"}"
B_LIST == "[]"
B_O_OK == "{\"message\": {\"role\": \"assistant\", \"content\": \"a\"}, \"done_reason\": \"stop\"}"
B_O_NO_FUNCTION == "{\"message\": {\"tool_calls\": [{\"name\": \"nmap\"}]}}"
B_S_OK == "{\"choices\": [{\"message\": {\"content\": \"a\"}, \"finish_reason\": \"stop\"}]}"
B_S_EMPTY_CHOICES == "{\"choices\": []}"
B_S_NO_MESSAGE == "{\"choices\": [{\"finish_reason\": \"stop\"}]}"
B_TAGS == "{\"models\": [{\"name\": \"llama3\"}]}"
B_TAGS_NO_NAME == "{\"models\": [{}]}"
B_A_OK == "{\"content\": [{\"type\": \"text\", \"text\": \"a\"}]}"
Bodies == {B_UNDECODABLE, B_ERROR, B_LIST, B_O_OK, B_O_NO_FUNCTION, B_S_OK,
           B_S_EMPTY_CHOICES, B_S_NO_MESSAGE, B_TAGS, B_TAGS_NO_NAME}

\* Response.json() on the bodies above: what the code reads of the document
NoDocument ==
    [ok |-> FALSE, is_dict |-> FALSE, has_message |-> FALSE, content |-> "",
     calls_have_function |-> TRUE, has_choices |-> FALSE, choices |-> 0,
     choice_has_message |-> FALSE, has_models |-> FALSE, models_have_name |-> TRUE,
     models |-> {}]
Document == [NoDocument EXCEPT !.ok = TRUE, !.is_dict = TRUE]
BodyJson(body) ==
    CASE body = B_ERROR -> Document
      [] body = B_LIST -> [Document EXCEPT !.is_dict = FALSE]
      [] body = B_O_OK -> [Document EXCEPT !.has_message = TRUE, !.content = "a"]
      [] body = B_O_NO_FUNCTION ->
            [Document EXCEPT !.has_message = TRUE, !.calls_have_function = FALSE]
      [] body = B_S_OK ->
            [Document EXCEPT !.has_choices = TRUE, !.choices = 1,
                             !.choice_has_message = TRUE, !.content = "a"]
      [] body = B_S_EMPTY_CHOICES -> [Document EXCEPT !.has_choices = TRUE]
      [] body = B_S_NO_MESSAGE -> [Document EXCEPT !.has_choices = TRUE, !.choices = 1]
      [] body = B_TAGS -> [Document EXCEPT !.has_models = TRUE, !.models = {"llama3"}]
      [] body = B_TAGS_NO_NAME ->
            [Document EXCEPT !.has_models = TRUE, !.models_have_name = FALSE]
      [] body = B_A_OK -> Document
      [] OTHER -> NoDocument

\* what a call returned or raised
Pending == [kind |-> "pending", exc |-> "", healthy |-> FALSE, text |-> ""]
Response(content) == [kind |-> "returned", exc |-> "", healthy |-> FALSE, text |-> content]
Raise(exc, text) == [kind |-> "raised", exc |-> exc, healthy |-> FALSE, text |-> text]
Health(healthy, message) ==
    [kind |-> "returned", exc |-> "", healthy |-> healthy, text |-> message]

Success(status) == status >= 200 /\ status < 300

\* ollama_backend.py:78-118
ollama_chat(w) ==
    LET data == BodyJson(w.body) IN
    IF w.net = "down" THEN Raise("RuntimeError", "Ollama request failed: " \o CONNECT_TEXT)
    ELSE IF ~Success(w.status)
         THEN Raise("RuntimeError", "Ollama request failed: " \o StatusText(w.status))
    ELSE IF ~data.ok THEN Raise("json.JSONDecodeError", "Expecting value")
    ELSE IF ~data.is_dict THEN Raise("AttributeError", "'list' object has no attribute 'get'")
    ELSE IF data.has_message /\ ~data.calls_have_function THEN Raise("KeyError", "'function'")
    ELSE Response(IF data.has_message THEN data.content ELSE "")

\* groq_backend.py:43-66, openai_compat_backend.py:44-67
sse_chat(w) ==
    LET data == BodyJson(w.body) IN
    IF w.net = "down" THEN Raise("httpx.ConnectError", CONNECT_TEXT)
    ELSE IF ~Success(w.status) THEN Raise("httpx.HTTPStatusError", StatusText(w.status))
    ELSE IF ~data.ok THEN Raise("json.JSONDecodeError", "Expecting value")
    ELSE IF ~data.is_dict THEN Raise("TypeError", "list indices must be integers")
    ELSE IF ~data.has_choices THEN Raise("KeyError", KEY_ERROR)
    ELSE IF data.choices = 0 THEN Raise("IndexError", INDEX_ERROR)
    ELSE IF ~data.choice_has_message THEN Raise("KeyError", "'message'")
    ELSE Response(data.content)

\* anthropic_backend.py:94-122; the SDK raises its own exceptions
anthropic_chat(w) ==
    IF w.net = "down" THEN Raise("anthropic.APIConnectionError", "Connection error.")
    ELSE IF ~Success(w.status)
         THEN Raise("anthropic.APIStatusError", "Error code: " \o ToString(w.status))
    ELSE Response("a")

chat(w) ==
    CASE w.variant = "ollama" -> ollama_chat(w)
      [] w.variant \in SseVariants -> sse_chat(w)
      [] w.variant = "anthropic" -> anthropic_chat(w)

\* ollama_backend.py:30-42
ollama_health_check(w) ==
    LET data == BodyJson(w.body)
        unreachable(e) == Health(FALSE, "Ollama not reachable at " \o HOST \o ": " \o e)
    IN
    IF w.net = "down" THEN unreachable(CONNECT_TEXT)
    ELSE IF w.status = 200
    THEN IF ~data.ok THEN unreachable("Expecting value")
         ELSE IF ~data.is_dict THEN unreachable("'list' object has no attribute 'get'")
         ELSE IF ~data.models_have_name THEN unreachable("'name'")
         ELSE IF MODEL \in data.models THEN Health(TRUE, "Ollama OK - " \o MODEL \o " available")
         ELSE Health(TRUE, "Ollama running but model '" \o MODEL
                               \o "' not pulled. Run: ollama pull " \o MODEL)
    ELSE Health(FALSE, "Unexpected response from Ollama")

\* groq_backend.py:31-41
groq_health_check(w) ==
    IF ~w.api_key THEN Health(FALSE, "No Groq API key configured")
    ELSE IF w.net = "down" THEN Health(FALSE, "Groq not reachable: " \o CONNECT_TEXT)
    ELSE IF w.status = 200 THEN Health(TRUE, "Groq OK - model: " \o MODEL)
    ELSE Health(FALSE, "Groq returned HTTP " \o ToString(w.status))

\* openai_compat_backend.py:34-42
openai_compat_health_check(w) ==
    IF w.net = "down" THEN Health(FALSE, "Not reachable: " \o CONNECT_TEXT)
    ELSE IF w.status \in {200, 401}
         THEN Health(w.status = 200, "OpenAI-compat OK - " \o MODEL)
    ELSE Health(FALSE, "HTTP " \o ToString(w.status) \o " from " \o HOST)

\* anthropic_backend.py:34-46
anthropic_health_check(w) ==
    IF ~w.api_key THEN Health(FALSE, "No Anthropic API key configured")
    ELSE IF w.net = "down" THEN Health(FALSE, "Anthropic error: Connection error.")
    ELSE IF ~Success(w.status)
         THEN Health(FALSE, "Anthropic error: Error code: " \o ToString(w.status))
    ELSE Health(TRUE, "Anthropic OK - " \o MODEL)

health_check(w) ==
    CASE w.variant = "ollama" -> ollama_health_check(w)
      [] w.variant = "groq" -> groq_health_check(w)
      [] w.variant = "openai_compat" -> openai_compat_health_check(w)
      [] w.variant = "anthropic" -> anthropic_health_check(w)

\* one call of a backend and the exchange the provider makes of it; the
\* hosted-model SDK decodes the body itself, only a well-formed one is drawn
CallExchanges ==
    {w \in [variant : Variants, op : {"chat", "health_check"}, api_key : BOOLEAN,
            net : {"up", "down"}, status : Statuses, body : Bodies \cup {B_A_OK},
            result : {Pending}] :
        (w.variant = "anthropic") = (w.body = B_A_OK)}

CallInit ==
    /\ AgentAtRest
    /\ history = [max_tokens |-> DEFAULT_MAX_TOKENS, system_prompt |-> "sys", messages |-> <<>>]
    /\ wire \in CallExchanges

\* the state of the agent
agent == <<config, worker, history, locals, events, gates, backend, executor, pc, call_no>>

Chat ==
    /\ wire.op = "chat"
    /\ wire.result = Pending
    /\ wire' = [wire EXCEPT !.result = chat(wire)]
    /\ UNCHANGED agent

HealthCheck ==
    /\ wire.op = "health_check"
    /\ wire.result = Pending
    /\ wire' = [wire EXCEPT !.result = health_check(wire)]
    /\ UNCHANGED agent

CallNext ==
    \/ Chat
    \/ HealthCheck

CallSpec == CallInit /\ [][CallNext]_vars

\* ------------------------------------------------------------------------
\* Tool registry: execute_from_ai() on one tool call
\* ------------------------------------------------------------------------
\* registry.py:15-16 after build_default_registry: nmap is registered and
\* its binary was found, ffuf is registered and its binary was not
_tools == {"nmap", "ffuf"}
_availability == [name \in _tools |-> IF name = "nmap" THEN <<TRUE, "nmap found">>
                                       ELSE <<FALSE, "Install ffuf">>]
ToolNames == _tools \cup {"bogus"}

\* base.py:8-14
ToolResult(success, out, error) == [success |-> success, output |-> out, error |-> error]
\* what the adapter does once its parameters are bound: the ToolResult of
\* run_command (executor.py:39-49), or the message of what it raises
ToolOutcomes ==
    {[raises |-> FALSE, result |-> ToolResult(TRUE, "22/tcp open", ""), text |-> ""],
     [raises |-> FALSE, result |-> ToolResult(TRUE, "", ""), text |-> ""],
     [raises |-> FALSE, result |-> ToolResult(FALSE, "Failed to resolve \"t\".", ""),
      text |-> ""],
     [raises |-> FALSE, result |-> ToolResult(FALSE, "", "Command timed out after 120s"),
      text |-> ""],
     [raises |-> TRUE, result |-> ToolResult(FALSE, "", ""), text |-> "boom"]}

\* the mappings a model supplies: one for every set of these keys
ArgumentKeys == <<"target", "name", "verbose">>
Mapping(K) ==
    LET keys == SelectSeq(ArgumentKeys, LAMBDA k : k \in K)
    IN [kind |-> "dict", keys |-> keys, vals |-> [i \in 1..Len(keys) |-> "t"]]
ArgumentMappings == {Mapping(K) : K \in SUBSET {"target", "name", "verbose"}}
HasKey(arguments, key) == \E i \in 1..Len(arguments.keys) : arguments.keys[i] = key

\* str(e) of the TypeErrors of binding **arguments to the parameters
\* (registry.py:55, adapters/nmap.py:57)
NAME_TWICE == "ToolRegistry.execute() got multiple values for argument 'name'"
MISSING_TARGET == "NmapTool.execute() missing 1 required positional argument: 'target'"

\* registry.py:32-42
is_available(name) == IF name \in DOMAIN _availability THEN _availability[name][1] ELSE FALSE
get_hint(name) ==
    IF name \in DOMAIN _availability THEN _availability[name][2] ELSE "Tool not registered"

\* adapters/nmap.py:57-60: execute(self, target, ..., **_)
tool_execute(arguments, outcome) ==
    IF ~HasKey(arguments, "target")
    THEN [raises |-> TRUE, result |-> ToolResult(FALSE, "", ""), text |-> MISSING_TARGET]
    ELSE outcome

\* registry.py:55-67
execute(name, arguments, outcome) ==
    IF name \notin _tools THEN ToolResult(FALSE, "", "Unknown tool: " \o name)
    ELSE IF ~is_available(name)
    THEN ToolResult(FALSE, "", "Tool '" \o name \o "' not available. " \o get_hint(name))
    ELSE LET ran == tool_execute(arguments, outcome)
         IN IF ran.raises THEN ToolResult(FALSE, "", ran.text) ELSE ran.result

\* registry.py:69-74; self.execute(tool_name, **arguments) binds the keys of
\* the mapping to the parameters of execute before its body runs
execute_from_ai(tool_name, arguments, outcome) ==
    IF HasKey(arguments, "name") THEN Raise("TypeError", NAME_TWICE)
    ELSE LET result == execute(tool_name, arguments, outcome)
         IN IF result.success \/ result.output # ""
            THEN Response(IF result.output # "" THEN result.output ELSE result.error)
            ELSE Response("[Error] " \o result.error)

RegistryExchanges ==
    [variant : {"registry"}, op : {"execute_from_ai"}, tool_name : ToolNames,
     arguments : ArgumentMappings, outcome : ToolOutcomes, result : {Pending}]

RegistryInit ==
    /\ AgentAtRest
    /\ history = [max_tokens |-> DEFAULT_MAX_TOKENS, system_prompt |-> "sys", messages |-> <<>>]
    /\ wire \in RegistryExchanges

\* agent.py:159: the executor of the agent is execute_from_ai
\* (main_window.py:301)
ExecuteFromAi ==
    /\ wire.op = "execute_from_ai"
    /\ wire.result = Pending
    /\ wire' = [wire EXCEPT
                  !.result = execute_from_ai(wire.tool_name, wire.arguments, wire.outcome)]
    /\ UNCHANGED agent

RegistryNext == ExecuteFromAi

RegistrySpec == RegistryInit /\ [][RegistryNext]_vars

\* ------------------------------------------------------------------------
\* Backends: the messages of a stream_chat call in the provider's format
\* ------------------------------------------------------------------------
\* tool calls of earlier runs, with arguments whose strings need escaping
QuotedArgs == [kind |-> "dict", keys |-> <<"a\"b", "k">>, vals |-> <<"x\\y, \"z\": ", "}">>]
CALL_1 == [id |-> "c1", name |-> "nmap", arguments |-> DictArgs]
CALL_2 == [id |-> "c2", name |-> "ffuf", arguments |-> QuotedArgs]
CALL_3 == [id |-> "c3", name |-> "whois", arguments |-> EmptyArgs]
RecordedCalls == {CALL_1, CALL_2, CALL_3}

\* the messages the agent has stored for them (agent.py:118-138, 169)
NoHistory == [max_tokens |-> DEFAULT_MAX_TOKENS, system_prompt |-> "", messages |-> <<>>]
RecordedMessages ==
    { add_user(NoHistory, "hi").messages[1],
      add_assistant(NoHistory, "done", <<>>).messages[1],
      add_assistant(NoHistory, "", tc_dicts(<<CALL_3>>)).messages[1],
      add_assistant(NoHistory, "a", tc_dicts(<<CALL_2, CALL_1>>)).messages[1],
      add_tool_result(NoHistory, "c1", "nmap", "out").messages[1],
      add_tool_result(NoHistory, "c2", "ffuf", "[Error] boom").messages[1] }

\* the dict of a message: the keys MessageHistory gives it
\* (message_history.py:14-37)
AsDict(m) ==
    IF m.role = "tool"
    THEN [role |-> m.role, tool_call_id |-> m.tool_call_id, name |-> m.name,
          content |-> m.content]
    ELSE IF m.role = "assistant" /\ m.tool_calls # <<>>
    THEN [role |-> m.role, content |-> m.content, tool_calls |-> m.tool_calls]
    ELSE [role |-> m.role, content |-> m.content]
AsDicts(msgs) == [i \in 1..Len(msgs) |-> AsDict(msgs[i])]

\* ollama_backend.py:58-68: one tool call of an assistant message
NormalizeCall(tc) ==
    LET fn == Get(tc, "function", [name |-> ""])
        args == Get(fn, "arguments", EmptyArgs)
        decoded == IF args \in STRING
                   THEN IF JsonLoads(args).ok THEN JsonLoads(args).value ELSE EmptyArgs
                   ELSE args
        popped == Pop(tc, {"type"})
    IN [k \in DOMAIN popped \cup {"function"} |->
           IF k = "function"
           THEN [f \in DOMAIN fn \cup {"arguments"} |->
                    IF f = "arguments" THEN decoded ELSE fn[f]]
           ELSE popped[k]]

\* ollama_backend.py:54-75: one message
NormalizeMessage(msg) ==
    IF Get(msg, "role", "") = "assistant" /\ Get(msg, "tool_calls", <<>>) # <<>>
    THEN [k \in DOMAIN msg |->
             IF k = "tool_calls"
             THEN [i \in 1..Len(msg.tool_calls) |-> NormalizeCall(msg.tool_calls[i])]
             ELSE msg[k]]
    ELSE IF Get(msg, "role", "") = "tool" THEN Pop(msg, {"tool_call_id", "name"})
    ELSE msg

\* ollama_backend.py:44-76
_normalize_messages(messages) == [i \in 1..Len(messages) |-> NormalizeMessage(messages[i])]

\* x = dict(x) (ollama_backend.py:56, 60, 62) followed by writes that make
\* the new dict `written`: the dict the caller holds still is `original`
\* mutant: the writes go to the caller's dict
AfterCopy_alias(original, written) == written

AfterCopy(original, written) == original

\* ollama_backend.py:60-68: what the caller's dict of a tool call holds
\* afterwards; its "function" entry is the dict that line 62 copies
CallerCall(tc) ==
    LET fn == Get(tc, "function", [name |-> ""])
        held == IF "function" \in DOMAIN tc
                THEN [tc EXCEPT !.function = AfterCopy(fn, NormalizeCall(tc).function)]
                ELSE tc
    IN AfterCopy(held, NormalizeCall(tc))

\* ollama_backend.py:55-74: what the caller's dict of a message holds
\* afterwards; normalized_calls is a new list, the tool calls it is built
\* from are the caller's
CallerMessage(msg) ==
    IF Get(msg, "role", "") = "assistant" /\ Get(msg, "tool_calls", <<>>) # <<>>
    THEN AfterCopy([msg EXCEPT !.tool_calls =
                        [i \in 1..Len(msg.tool_calls) |-> CallerCall(msg.tool_calls[i])]],
                   NormalizeMessage(msg))
    ELSE AfterCopy(msg, NormalizeMessage(msg))

\* ollama_backend.py:54, 75: `out` is a new list, the caller's list keeps
\* its entries
CallerMessages(messages) == [i \in 1..Len(messages) |-> CallerMessage(messages[i])]

\* anthropic_backend.py:81-88: the tool_use block of one tool call
ToolUseBlock(tc) ==
    LET args == tc.function.arguments
    IN [type |-> "tool_use", id |-> tc.id, name |-> tc.function.name,
        input |-> IF args \in STRING THEN JsonLoads(args).value ELSE args]

\* json.loads at anthropic_backend.py:86 raises on a call of the message
ConvertRaises(msg) ==
    /\ msg.role = "assistant"
    /\ \E i \in 1..Len(Get(msg, "tool_calls", <<>>)) :
          /\ msg.tool_calls[i].function.arguments \in STRING
          /\ ~JsonLoads(msg.tool_calls[i].function.arguments).ok

\* mutant: the text block is emitted whatever the content is
ConvertMessage_alwaystext(msg) ==
    IF msg.role = "tool"
    THEN [role |-> "user",
          content |-> <<[type |-> "tool_result",
                         tool_use_id |-> Get(msg, "tool_call_id", ""),
                         content |-> msg.content]>>]
    ELSE IF msg.role = "assistant" /\ Get(msg, "tool_calls", <<>>) # <<>>
    THEN [role |-> "assistant",
          content |-> <<[type |-> "text", text |-> msg.content]>>
                       \o [i \in 1..Len(msg.tool_calls) |-> ToolUseBlock(msg.tool_calls[i])]]
    ELSE [role |-> msg.role, content |-> msg.content]

\* anthropic_backend.py:69-91: one message that is not a system message
ConvertMessage(msg) ==
    IF msg.role = "tool"
    THEN [role |-> "user",
          content |-> <<[type |-> "tool_result",
                         tool_use_id |-> Get(msg, "tool_call_id", ""),
                         content |-> msg.content]>>]
    ELSE IF msg.role = "assistant" /\ Get(msg, "tool_calls", <<>>) # <<>>
    THEN [role |-> "assistant",
          content |-> (IF msg.content # "" THEN <<[type |-> "text", text |-> msg.content]>>
                       ELSE <<>>)
                       \o [i \in 1..Len(msg.tool_calls) |-> ToolUseBlock(msg.tool_calls[i])]]
    ELSE [role |-> msg.role, content |-> msg.content]

\* anthropic_backend.py:61-92: system is None when no message has the
\* system role, else the content of the last one
RECURSIVE ConvertFrom(_, _)
ConvertFrom(messages, acc) ==
    IF messages = <<>> THEN acc
    ELSE LET msg == Head(messages) IN
         IF ConvertRaises(msg) THEN [acc EXCEPT !.raised = TRUE]
         ELSE ConvertFrom(Tail(messages),
                 IF msg.role = "system"
                 THEN [acc EXCEPT !.system = [is_none |-> FALSE, content |-> msg.content]]
                 ELSE [acc EXCEPT !.converted = Append(@, ConvertMessage(msg))])

_convert_messages(messages) ==
    ConvertFrom(messages, [raised |-> FALSE, system |-> [is_none |-> TRUE, content |-> ""],
                           converted |-> <<>>])

\* the variants whose stream_chat is called, nothing sent yet
\* `self` holds the fields of the backend instance, `passed` the dicts of
\* the list the caller passed as they are after the call, `earlier` the
\* requests of the calls before this one
PayloadExchanges ==
    [variant : {"ollama", "groq", "anthropic"}, op : {"stream_chat"}, sent : {"nothing"},
     system : {[is_none |-> TRUE, content |-> ""]}, messages : {<<>>},
     self : {[_model |-> MODEL]}, model : {""}, passed : {<<>>}, earlier : {<<>>}]

\* a run starts on the history earlier runs left
PayloadInit ==
    /\ AgentAtRest
    /\ history \in [max_tokens : {DEFAULT_MAX_TOKENS}, system_prompt : {"", "sys"},
                    messages : SeqsUpTo(RecordedMessages, MaxMessages - 1)]
    /\ wire \in PayloadExchanges

Calling(variant) ==
    /\ pc = "await_chunk"
    /\ wire.variant = variant
    /\ wire.sent = "nothing"

\* the list the call is given: the one the agent built for the stream
\* (agent.py:108), whose dicts are those of the history
\* (message_history.py:36), or the list of the call before
Passed ==
    IF wire.earlier = <<>> THEN AsDicts(stream_log[Len(stream_log)].messages)
    ELSE wire.passed

\* ollama_backend.py:121-129: the payload of the request
OllamaPayload ==
    /\ Calling("ollama")
    /\ wire' = [wire EXCEPT
                  !.sent = "payload",
                  !.model = wire.self._model,
                  !.messages = _normalize_messages(Passed),
                  !.passed = CallerMessages(Passed)]
    /\ UNCHANGED agent

\* groq_backend.py:69: the messages are sent as they are
SsePayload ==
    /\ Calling("groq")
    /\ wire' = [wire EXCEPT !.sent = "payload",
                            !.model = wire.self._model,
                            !.messages = Passed,
                            !.passed = Passed]
    /\ UNCHANGED agent

\* anthropic_backend.py:125-133: the arguments of messages.stream; the
\* conversion reads the messages and writes to none
AnthropicPayload ==
    /\ Calling("anthropic")
    /\ LET r == _convert_messages(Passed)
       IN wire' = IF r.raised THEN [wire EXCEPT !.sent = "raised", !.passed = Passed]
                  ELSE [wire EXCEPT !.sent = "payload", !.system = r.system,
                                    !.model = wire.self._model,
                                    !.messages = r.converted, !.passed = Passed]
    /\ UNCHANGED agent

\* what a call sent
Request(w) == [sent |-> w.sent, model |-> w.model, system |-> w.system, messages |-> w.messages]

\* base.py:27-43: the caller calls the backend a second time with the
\* list it passed before
CallAgain ==
    /\ pc = "await_chunk"
    /\ wire.op = "stream_chat"
    /\ wire.sent # "nothing"
    /\ wire.earlier = <<>>
    /\ wire' = [wire EXCEPT !.earlier = <<Request(wire)>>,
                            !.sent = "nothing",
                            !.model = "",
                            !.system = [is_none |-> TRUE, content |-> ""],
                            !.messages = <<>>]
    /\ UNCHANGED agent

PayloadNext ==
    \/ Run
    \/ LoopEnter
    \/ OllamaPayload
    \/ SsePayload
    \/ AnthropicPayload
    \/ CallAgain

PayloadSpec == PayloadInit /\ [][PayloadNext]_vars

TypeOK ==
    /\ pc \in SuspensionPoints \cup {"start", "loop_head", "done", "torn_down",
                                   "worker_exited"}
    /\ iterations \in 0..MaxIter
    /\ in_flight \in 0..1

\* ------------------------------------------------------------------------
\* Properties
\* ------------------------------------------------------------------------
Last(seq) == seq[Len(seq)]
EventIdx == 1..Len(events)
TerminalIdx == {j \in EventIdx : events[j].type \in {"AgentDone", "AgentError"}}
\* the ConfirmationRequired events / ToolResult events of the no-th tool call
ConfirmIdx(no) ==
    {k \in EventIdx : events[k].type = "ConfirmationRequired" /\ events[k].call_no = no}
ResultIdx(no) ==
    {k \in EventIdx : events[k].type = "ToolResult" /\ events[k].call_no = no}

\* C1: with require_confirm_dangerous set, every invocation of the tool
\* executor for a tool in the dangerous set belongs to a call for which a
\* ConfirmationRequired event with the same call_id has been emitted and
\* whose gate has been resolved with confirmed = true; a gate resolved with
\* confirmed left false never leads to an invocation.
C1_DangerousExecNeedsConfirmation ==
    require_confirm =>
        \A i \in 1..Len(exec_log) :
            exec_log[i].name \in DANGEROUS_TOOLS =>
                \E j \in EventIdx :
                    /\ events[j].type = "ConfirmationRequired"
                    /\ events[j].call_id = exec_log[i].call_id
                    /\ events[j].call_no = exec_log[i].call_no
                    /\ gates[events[j].gate].is_set
                    /\ gates[events[j].gate].confirmed

C1_Witness ==
    /\ require_confirm
    /\ \E i \in 1..Len(exec_log) : exec_log[i].name \in DANGEROUS_TOOLS
    /\ \E g \in 1..Len(gates) : gates[g].is_set /\ ~gates[g].confirmed

\* C2: the run yields at most one terminal event (AgentDone or AgentError),
\* a terminal event is the last event, and the coroutine has finished
\* exactly when one terminal event has been yielded.
C2_OneTerminalEventLast ==
    /\ Cardinality(TerminalIdx) <= 1
    /\ \A j \in TerminalIdx : j = Len(events)
    /\ (pc = "done") <=> (TerminalIdx # {})

C2_Witness ==
    /\ pc = "done"
    /\ Last(events).type = "AgentError"
    /\ \E j \in EventIdx : events[j].type = "ToolResult"

\* C3: when the agent wakes on a gate resolved with confirmed = False it
\* does not invoke the executor, appends the tool message "User cancelled
\* execution." to history and yields ToolResult(error = true, output =
\* "User cancelled execution.") for the call; resumed, it goes on with the next
\* tool call of the iteration, or with the while loop when none is left.
C3_DeclineStep ==
    /\ ( /\ pc = "await_gate"
         /\ gates[Len(gates)].is_set
         /\ ~gates[Len(gates)].confirmed
         /\ pc' \notin {"await_gate", "torn_down"} )
       => /\ pc' = "yielded_cancel"
          /\ exec_log' = exec_log
          /\ history'.messages = Append(history.messages,
                [role |-> "tool", content |-> "User cancelled execution.",
                 tool_calls |-> <<>>, tool_call_id |-> CurrentCall.id,
                 name |-> CurrentCall.name])
          /\ Len(events') = Len(events) + 1
          /\ Last(events').type = "ToolResult"
          /\ Last(events').error = TRUE
          /\ Last(events').text = "User cancelled execution."
          /\ Last(events').call_id = CurrentCall.id
          /\ Last(events').tool_name = CurrentCall.name
    /\ ( pc = "yielded_cancel" /\ pc' \notin {"yielded_cancel", "torn_down"} )
       => /\ exec_log' = exec_log
          /\ history' = history
          /\ IF tc_idx < Len(tool_calls_received)
             THEN /\ pc' = "yielded_tool_call"
                  /\ tc_idx' = tc_idx + 1
                  /\ Len(events') = Len(events) + 1
                  /\ Last(events').type = "ToolCall"
                  /\ Last(events').call_id = tool_calls_received[tc_idx + 1].id
             ELSE /\ pc' = "loop_head"
                  /\ events' = events

C3_DeclineHandled == [][C3_DeclineStep]_vars

C3_Witness ==
    \E j \in EventIdx :
        /\ events[j].type = "ToolResult"
        /\ events[j].text = "User cancelled execution."
        /\ events[j].call_no = 1
        /\ j < Len(events)
        /\ events[j + 1].type = "ToolCall"
        /\ stream_calls = 2

RECURSIVE ConcatAll(_)
ConcatAll(parts) == IF parts = <<>> THEN "" ELSE Head(parts) \o ConcatAll(Tail(parts))

\* the first stream has ended after text chunks only
FirstStreamTextOnly ==
    /\ Len(stream_log) >= 1
    /\ stream_log[1].status = "ended"
    /\ stream_log[1].texts # <<>>
    /\ stream_log[1].tcs = <<>>

\* what C5 says of a run whose first stream delivered texts
TextOnlyOutcome(texts) ==
    /\ events = [i \in 1..Len(texts) |-> TextChunkEvent(texts[i])]
                    \o <<AgentDoneEvent(ConcatAll(texts), 1)>>
    /\ Last(history.messages).role = "assistant"
    /\ Last(history.messages).content = ConcatAll(texts)
    /\ Last(history.messages).tool_calls = <<>>
    /\ stream_calls = 1
    /\ pc = "done"

\* C5 as stated: a first stream of one or more text chunks and no ToolCall
\* gives one TextChunk per chunk in order, then AgentCompleted with the
\* concatenation and 1 iteration, the concatenation appended to history as
\* an assistant message, and no second backend call.
C5_Original == FirstStreamTextOnly => TextOnlyOutcome(stream_log[1].texts)

\* C5 as amended: the same, for a first stream whose text chunks have a
\* non-empty concatenation; when every chunk is empty the events are the
\* same and nothing is appended to history.
C5_TextOnlyRun ==
    FirstStreamTextOnly =>
        IF ConcatAll(stream_log[1].texts) # ""
        THEN TextOnlyOutcome(stream_log[1].texts)
        ELSE /\ events = [i \in 1..Len(stream_log[1].texts) |-> TextChunkEvent("")]
                            \o <<AgentDoneEvent("", 1)>>
             /\ Last(history.messages).role = "user"
             /\ stream_calls = 1
             /\ pc = "done"

C5_Witness ==
    /\ FirstStreamTextOnly
    /\ stream_log[1].texts = <<"a", "b">>
    /\ pc = "done"

\* the tool calls all streams of the run have delivered, in delivery order
RECURSIVE DeliveredCalls(_)
DeliveredCalls(log) ==
    IF log = <<>> THEN <<>> ELSE Head(log).tcs \o DeliveredCalls(Tail(log))

IsToolCallEvent(e) == e.type = "ToolCall"
ToolCallIdx == {j \in EventIdx : events[j].type = "ToolCall"}
RequestedCalls ==
    [i \in 1..Len(SelectSeq(events, IsToolCallEvent)) |->
        [id |-> SelectSeq(events, IsToolCallEvent)[i].call_id,
         name |-> SelectSeq(events, IsToolCallEvent)[i].tool_name,
         arguments |-> SelectSeq(events, IsToolCallEvent)[i].arguments]]

\* C6: tool calls are requested in the order the backend delivered them;
\* a ToolCallRequested has at most one ToolCallResult, which follows it and
\* carries its call_id; the result precedes the next ToolCallRequested and
\* is there when the next stream is started (and when the run has completed
\* with AgentCompleted); at most one execution is in flight.
C6_OneCallAtATime ==
    /\ Cardinality({i \in 1..Len(exec_log) : exec_log[i].status = "running"}) <= 1
    /\ in_flight <= 1
    /\ Len(RequestedCalls) <= Len(DeliveredCalls(stream_log))
    /\ RequestedCalls = SubSeq(DeliveredCalls(stream_log), 1, Len(RequestedCalls))
    /\ \A j \in ToolCallIdx :
          /\ Cardinality(ResultIdx(events[j].call_no)) <= 1
          /\ \A k \in ResultIdx(events[j].call_no) :
                k > j /\ events[k].call_id = events[j].call_id
          /\ \A j2 \in ToolCallIdx :
                j2 > j => \E k \in ResultIdx(events[j].call_no) : k < j2
          /\ pc \in {"loop_head", "await_chunk"} => ResultIdx(events[j].call_no) # {}
          /\ (pc = "done" /\ Last(events).type = "AgentDone")
                => ResultIdx(events[j].call_no) # {}

C6_Witness ==
    /\ pc = "done"
    /\ Last(events).type = "AgentDone"
    /\ Cardinality(ToolCallIdx) = 2
    /\ Len(stream_log[1].tcs) = 2

\* every stream of the run has ended with at least one tool call
EveryStreamGaveToolCalls ==
    \A i \in 1..Len(stream_log) :
        stream_log[i].status = "ended" /\ stream_log[i].tcs # <<>>

\* C7: with max_iterations = N and a backend that returns at least one tool
\* call on every stream, the finished run has made N stream calls and ends
\* with AgentCompleted reporting N iterations, directly preceded by the
\* iteration-cap marker as a TextChunk, which final_response contains.
C7_Original ==
    (pc = "done" /\ EveryStreamGaveToolCalls) =>
        /\ Last(events).type = "AgentDone"
        /\ Last(events).iterations = max_iterations
        /\ stream_calls = max_iterations
        /\ Len(events) >= 2
        /\ events[Len(events) - 1].type = "TextChunk"
        /\ events[Len(events) - 1].text = CapMarker(max_iterations)
        /\ \E k \in 0..Len(Last(events).text) :
              SubSeq(Last(events).text, k + 1, Len(Last(events).text))
                  = CapMarker(max_iterations)

\* C7 for runs in which no dangerous call carries arguments that are not a
\* mapping (the case of C13)
C7_WellFormedCalls ==
    (/\ pc = "done"
     /\ EveryStreamGaveToolCalls
     /\ \A i \in 1..Len(DeliveredCalls(stream_log)) :
           NeedsConfirmation(require_confirm, DeliveredCalls(stream_log)[i].name)
              => DeliveredCalls(stream_log)[i].arguments.kind = "dict")
    => /\ Last(events).type = "AgentDone"
       /\ Last(events).iterations = max_iterations
       /\ stream_calls = max_iterations
       /\ events[Len(events) - 1] = TextChunkEvent(CapMarker(max_iterations))
       /\ Last(events).text = CapMarker(max_iterations)

\* the i-th stream has ended without text and without tool calls
EmptyStream(i) ==
    /\ stream_log[i].status = "ended"
    /\ ConcatAll(stream_log[i].texts) = ""
    /\ stream_log[i].tcs = <<>>

\* C8 as stated: an iteration whose stream yields neither text nor tool
\* calls does not complete the run; no AgentCompleted is emitted for it.
C8_Original ==
    \A i \in 1..Len(stream_log) :
        EmptyStream(i) =>
            ~(/\ events # <<>>
              /\ Last(events).type = "AgentDone"
              /\ Last(events).iterations = i
              /\ Last(events).text = "")

\* C8 as amended: an iteration whose stream yields neither text nor tool
\* calls completes the run at that iteration: AgentCompleted with an empty
\* final_response and that iteration's count is the next and last event,
\* no assistant message is appended, no further stream call is made.
C8_EmptyStreamCompletes ==
    \A i \in 1..Len(stream_log) :
        EmptyStream(i) =>
            /\ pc = "done"
            /\ Last(events).type = "AgentDone"
            /\ Last(events).text = ""
            /\ Last(events).iterations = i
            /\ Len(events) >= 2 => events[Len(events) - 1].text # CapMarker(max_iterations)
            /\ i = Len(stream_log)
            /\ stream_calls = i
            /\ Last(history.messages).role # "assistant"

C8_Witness ==
    /\ Len(stream_log) = 1
    /\ EmptyStream(1)
    /\ stream_log[1].texts = <<>>
    /\ max_iterations = 2
    /\ pc = "done"

\* the open stream ends in this step
StreamEnds ==
    /\ pc = "await_chunk"
    /\ Last(stream_log).status = "open"
    /\ Last(stream_log').status = "ended"

\* C9, the step: when a stream that delivered text and tool calls ends, no
\* AgentCompleted is yielded; one assistant message is appended whose
\* content is the accumulated text and whose tool_calls record every tool
\* call with its arguments as a JSON string; the first ToolCallRequested
\* is yielded.
C9_Step ==
    (/\ StreamEnds
     /\ ConcatAll(Last(stream_log).texts) # ""
     /\ Last(stream_log).tcs # <<>>)
    => /\ pc' = "yielded_tool_call"
       /\ Len(history'.messages) = Len(history.messages) + 1
       /\ SubSeq(history'.messages, 1, Len(history.messages)) = history.messages
       /\ Last(history'.messages).role = "assistant"
       /\ Last(history'.messages).content = ConcatAll(Last(stream_log).texts)
       /\ Len(Last(history'.messages).tool_calls) = Len(Last(stream_log).tcs)
       /\ \A i \in 1..Len(Last(stream_log).tcs) :
             /\ Last(history'.messages).tool_calls[i].id = Last(stream_log).tcs[i].id
             /\ Last(history'.messages).tool_calls[i].function.name
                   = Last(stream_log).tcs[i].name
             /\ Last(stream_log).tcs[i].arguments = DictArgs
                   => Last(history'.messages).tool_calls[i].function.arguments
                         = "{\"target\": \"t\"}"
       /\ Len(events') = Len(events) + 1
       /\ Last(events').type = "ToolCall"
       /\ Last(events').call_id = Last(stream_log).tcs[1].id

HasEnded(stream) == stream.status = "ended"

\* C9, the states: whenever control is back at the while loop or in a
\* later stream, every tool call of the streams that have ended has its
\* ToolCallResult;
\* an AgentCompleted that reports an iteration whose stream delivered tool
\* calls is the one that follows the iteration-cap marker.
C9_State ==
    /\ pc \in {"loop_head", "await_chunk"} =>
          \A no \in 1..Len(DeliveredCalls(SelectSeq(stream_log, HasEnded))) :
              ResultIdx(no) # {}
    /\ \A j \in EventIdx :
          (/\ events[j].type = "AgentDone"
           /\ events[j].iterations >= 1
           /\ stream_log[events[j].iterations].tcs # <<>>)
          => /\ events[j].iterations = max_iterations
             /\ events[j - 1].type = "TextChunk"
             /\ events[j - 1].text = CapMarker(max_iterations)

ExecutorRaisesNow ==
    /\ pc = "await_exec"
    /\ Last(exec_log).status = "running"
    /\ Last(exec_log').status = "raised"

\* C10: when the executor raises, the next event is a ToolCallResult with
\* error = true whose output is "Tool error: " followed by the exception's
\* message, not AgentFailed; resumed, the agent appends a tool message with
\* that output to history and goes on with the next tool call of the
\* iteration, or with the while loop when none is left.
C10_Step ==
    /\ ExecutorRaisesNow
       => /\ pc' = "yielded_result"
          /\ Len(events') = Len(events) + 1
          /\ Last(events').type = "ToolResult"
          /\ Last(events').error = TRUE
          /\ Last(events').text = "Tool error: " \o Last(exec_log').value
          /\ Last(events').call_id = CurrentCall.id
          /\ Last(events').tool_name = CurrentCall.name
          /\ history' = history
    /\ (/\ pc = "yielded_result"
        /\ Last(exec_log).status = "raised"
        /\ pc' \notin {"yielded_result", "torn_down"})
       => /\ history'.messages = Append(history.messages,
                [role |-> "tool", content |-> "Tool error: " \o Last(exec_log).value,
                 tool_calls |-> <<>>, tool_call_id |-> CurrentCall.id,
                 name |-> CurrentCall.name])
          /\ IF tc_idx < Len(tool_calls_received)
             THEN /\ pc' = "yielded_tool_call"
                  /\ tc_idx' = tc_idx + 1
                  /\ Len(events') = Len(events) + 1
                  /\ Last(events').type = "ToolCall"
                  /\ Last(events').call_id = tool_calls_received[tc_idx + 1].id
             ELSE /\ pc' = "loop_head"
                  /\ events' = events

C10_ExecutorExceptionRecovered == [][C10_Step]_vars

C10_Witness ==
    /\ Len(exec_log) = 2
    /\ exec_log[1].status = "raised"
    /\ exec_log[1].arguments = DictArgs
    /\ stream_calls = 2

\* registry.py:74: the executor reports a failure by its return value
ReturnedFailure(v) == Len(v) >= 8 /\ SubSeq(v, 1, 8) = "[Error] "

\* C11: when the executor returns an "[Error] ..." string, the ToolCallResult
\* of that call is there and carries error = true.
C11_Original ==
    \A i \in 1..Len(exec_log) :
        (exec_log[i].status = "returned" /\ ReturnedFailure(exec_log[i].value))
            => /\ ResultIdx(exec_log[i].call_no) # {}
               /\ \A k \in ResultIdx(exec_log[i].call_no) : events[k].error = TRUE

\* the open stream raises in this step
StreamRaisesNow ==
    /\ pc = "await_chunk"
    /\ Last(stream_log).status = "open"
    /\ Last(stream_log').status = "raised"

\* C12, the step: when stream_chat raises, AgentFailed with the exception's
\* message is the one event yielded, the coroutine finishes, history is left
\* as it is and no stream call or tool execution is started.
C12_Step ==
    StreamRaisesNow =>
        /\ Len(events') = Len(events) + 1
        /\ SubSeq(events', 1, Len(events)) = events
        /\ Last(events').type = "AgentError"
        /\ Last(events').text = Last(stream_log').error
        /\ Last(stream_log').error \in StreamErrors
        /\ pc' = "done"
        /\ history' = history
        /\ stream_calls' = stream_calls
        /\ exec_log' = exec_log
        /\ in_flight' = in_flight

\* C12, the states: a stream that raised is the last stream of the run, the
\* run has finished, its last event is AgentFailed with the message, it has
\* no AgentCompleted, no tool execution is running and no tool call that the
\* raised stream delivered was executed.
C12_State ==
    \A i \in 1..Len(stream_log) :
        stream_log[i].status = "raised" =>
            /\ i = Len(stream_log)
            /\ stream_calls = i
            /\ pc = "done"
            /\ Last(events).type = "AgentError"
            /\ Last(events).text = stream_log[i].error
            /\ \A j \in EventIdx : events[j].type # "AgentDone"
            /\ in_flight = 0
            /\ \A k \in 1..Len(exec_log) : exec_log[k].status # "running"
            /\ Len(exec_log) <= Len(DeliveredCalls(SelectSeq(stream_log, HasEnded)))

\* C12: a raising backend stream ends the run with AgentFailed
C12_StreamFailureEndsRun == []C12_State /\ [][C12_Step]_vars

C12_Witness ==
    /\ Len(stream_log) = 2
    /\ stream_log[2].status = "raised"
    /\ stream_log[2].tcs # <<>>
    /\ Len(exec_log) = 1
    /\ Len(history.messages) = 3

\* C13: AgentFailed is produced only by failures outside tool handling, that
\* is, in this model, only when a backend stream raised; every tool call the
\* backend delivers, whatever its arguments, is recovered locally.
C13_Original ==
    \A j \in EventIdx :
        events[j].type = "AgentError" =>
            \E i \in 1..Len(stream_log) : stream_log[i].status = "raised"

\* C14: the run is never left suspended on a gate that has been resolved:
\* whenever the agent is suspended on a gate the caller has set, the step
\* that resumes it (and acts on the decision) can be taken.
C14_Original ==
    (pc = "await_gate" /\ Last(gates).is_set) => ENABLED GateWakes

\* C15: after the caller has requested a stop of the run, the worker emits
\* none of its signals for that run.
C15_Original == late_signals = <<>>

IsPrefix(a, b) == Len(a) <= Len(b) /\ SubSeq(b, 1, Len(a)) = a

\* positions of the assistant messages of the stored history
AssistantPos == {p \in 1..Len(history.messages) : history.messages[p].role = "assistant"}
\* the stream whose end stored the assistant message at position p
StreamOf(p) == Cardinality({q \in AssistantPos : q <= p})
\* the last assistant message before position p (0 when there is none)
AssistantBefore(p) ==
    IF \E q \in AssistantPos : q < p
    THEN CHOOSE q \in AssistantPos : q < p /\ \A r \in AssistantPos : r < p => r <= q
    ELSE 0

\* the stored history is made of whole messages in the order of the run: the
\* user message, then for each stream that ended its assistant message (the
\* whole streamed text, every tool call), followed by the tool messages of
\* its calls in order, each with the whole output of the call's ToolCallResult
WholeHistory ==
    LET msgs == history.messages IN
    /\ Len(msgs) >= 1
    /\ msgs[1].role = "user"
    /\ msgs[1].content \in UserMessages
    /\ \A p \in 2..Len(msgs) : msgs[p].role \in {"assistant", "tool"}
    /\ \A p \in AssistantPos :
          /\ StreamOf(p) <= Len(stream_log)
          /\ stream_log[StreamOf(p)].status = "ended"
          /\ msgs[p].content = ConcatAll(stream_log[StreamOf(p)].texts)
          /\ msgs[p].tool_calls = tc_dicts(stream_log[StreamOf(p)].tcs)
    /\ \A p \in 1..Len(msgs) :
          msgs[p].role = "tool" =>
              LET a == AssistantBefore(p)
                  i == p - a
              IN /\ a > 0
                 /\ i <= Len(stream_log[StreamOf(a)].tcs)
                 /\ msgs[p].tool_call_id = stream_log[StreamOf(a)].tcs[i].id
                 /\ msgs[p].name = stream_log[StreamOf(a)].tcs[i].name
                 /\ LET no == Len(DeliveredCalls(SubSeq(stream_log, 1, StreamOf(a) - 1))) + i
                    IN \E k \in ResultIdx(no) : events[k].text = msgs[p].content

\* C16, the step: every step of the run leaves the stored messages in place
\* and at most appends to them; the teardown, and what follows it, changes
\* nothing of the history.
C16_Step ==
    /\ IsPrefix(history.messages, history'.messages)
    /\ history'.system_prompt = history.system_prompt
    /\ history'.max_tokens = history.max_tokens
    /\ pc' \in {"torn_down", "worker_exited"} => history' = history

\* C16, the states: the history a torn-down run leaves behind is made of
\* whole messages in chronological order.
C16_State == pc \in {"torn_down", "worker_exited"} => WholeHistory

\* C16: tearing a run down at a suspension point leaves a prefix of the
\* uninterrupted run's history
C16_TeardownKeepsHistory == []C16_State /\ [][C16_Step]_vars

C16_Witness ==
    /\ pc = "torn_down"
    /\ events # <<>>
    /\ Last(events).type = "ToolResult"
    /\ Last(history.messages).role = "assistant"
    /\ Last(history.messages).tool_calls # <<>>
    /\ Len(history.messages) = 4

\* C17: every tool message of the stored history carries a tool_call_id that
\* the tool_calls of an earlier assistant message of the stored history record.
C17_Original ==
    \A p \in 1..Len(history.messages) :
        history.messages[p].role = "tool" =>
            \E q \in 1..(p - 1) :
                /\ history.messages[q].role = "assistant"
                /\ \E i \in 1..Len(history.messages[q].tool_calls) :
                      history.messages[q].tool_calls[i].id = history.messages[p].tool_call_id

\* the estimated token count as the claims define it: length of the system
\* prompt div 4 plus, per message, content length div 4
RECURSIVE ContentTokens(_, _)
ContentTokens(msgs, n) ==
    IF n = 0 THEN 0 ELSE ContentTokens(msgs, n - 1) + (Len(msgs[n].content) \div 4)
EstimatedTokens(h) ==
    (Len(h.system_prompt) \div 4) + ContentTokens(h.messages, Len(h.messages))

\* prune() has returned
Pruned == pc \in {"pruned", "loop_head"}

\* C18: after prune() has returned, the estimated token count is at most
\* the budget or fewer than 3 messages remain.
C18_PruneInvariant ==
    Pruned => \/ EstimatedTokens(history) <= history.max_tokens
              \/ Len(history.messages) < 3

C18_Witness ==
    /\ pc = "pruned"
    /\ EstimatedTokens(history) > history.max_tokens
    /\ Len(history.messages) = 2

\* C19 as stated: after prune() has returned, the estimated token count is
\* at most the budget or fewer than 2 messages remain.
C19_Original ==
    Pruned => \/ EstimatedTokens(history) <= history.max_tokens
              \/ Len(history.messages) < 2

\* prune() is called and returns in this step
PruneStep == pc = "start" /\ pc' = "pruned"

\* C19 as amended: prune() stops at 2 messages: a history it leaves over
\* budget has exactly 2 messages when it had 2 or more, and is the whole
\* history it was given otherwise; prune() never brings a history of 2 or
\* more messages below 2 messages.
C19_Step ==
    PruneStep =>
        /\ Len(history.messages) >= 2 => Len(history'.messages) >= 2
        /\ EstimatedTokens(history') > history.max_tokens =>
              IF Len(history.messages) >= 2
              THEN Len(history'.messages) = 2
              ELSE history'.messages = history.messages

C19_PruneKeepsTwo == [][C19_Step]_vars

C19_Witness ==
    /\ pc = "pruned"
    /\ Len(history.messages) = 2
    /\ history.messages[1].role = "tool"
    /\ EstimatedTokens(history) > history.max_tokens
    /\ history.system_prompt = ""

IsSuffix(a, b) ==
    /\ Len(a) <= Len(b)
    /\ SubSeq(b, Len(b) - Len(a) + 1, Len(b)) = a

\* C20, prune() on its own: the messages after it are a suffix of the
\* messages before it, budget and system prompt are left alone, a history
\* of at most 2 messages or within budget is untouched, and the two most
\* recent messages are kept even when they alone exceed the budget.
C20_PruneStep ==
    PruneStep =>
        /\ IsSuffix(history'.messages, history.messages)
        /\ history'.max_tokens = history.max_tokens
        /\ history'.system_prompt = history.system_prompt
        /\ (Len(history.messages) <= 2 \/ EstimatedTokens(history) <= history.max_tokens)
              => history' = history
        /\ Len(history.messages) >= 2 =>
              /\ Len(history'.messages) >= 2
              /\ SubSeq(history'.messages, Len(history'.messages) - 1, Len(history'.messages))
                    = SubSeq(history.messages, Len(history.messages) - 1, Len(history.messages))

\* C20, prune() as run() calls it: the user message just appended is the
\* last message afterwards, the message before it is kept, and what is left
\* is a suffix of the history with the user message appended.
C20_RunStep ==
    (pc = "start" /\ pc' = "loop_head") =>
        /\ Last(history'.messages).role = "user"
        /\ Last(history'.messages).content \in UserMessages
        /\ IsSuffix(history'.messages, Append(history.messages, Last(history'.messages)))
        /\ Len(history.messages) >= 1 =>
              /\ Len(history'.messages) >= 2
              /\ history'.messages[Len(history'.messages) - 1] = Last(history.messages)

\* C20: prune() evicts only from the front and never the two most recent
C20_PruneEvictsFront == [][C20_PruneStep /\ C20_RunStep]_vars

C20_Witness ==
    /\ pc = "pruned"
    /\ Len(history.messages) = 2
    /\ EstimatedTokens(history) > history.max_tokens
    /\ history.messages[1].role = "assistant"
    /\ history.messages[2].role = "tool"

\* the tool message of the current call is stored in this step
ResultStored ==
    /\ pc = "yielded_result"
    /\ Len(history'.messages) = Len(history.messages) + 1

\* C21: the tool message stored for a result holds the first 4000 characters
\* of an output longer than 4000 characters and the whole of a shorter one;
\* the ToolCallResult yielded for the call carries the whole output.
C21_Step ==
    /\ ResultStored =>
          /\ Last(history'.messages).role = "tool"
          /\ Len(Last(history'.messages).content) <= 4000
          /\ IF Len(output) > 4000
             THEN /\ Len(Last(history'.messages).content) = 4000
                  /\ Last(history'.messages).content = SubSeq(output, 1, 4000)
             ELSE Last(history'.messages).content = output
          /\ \E k \in ResultIdx(call_no) : events[k].text = output
    /\ (pc = "await_exec" /\ pc' = "yielded_result") =>
          /\ Last(events').type = "ToolResult"
          /\ Last(events').text = Last(exec_log').value
          /\ Len(Last(events').text) = Len(Last(exec_log').value)
          /\ output' = Last(exec_log').value

C21_ToolResultCap == [][C21_Step]_vars

C21_Witness ==
    /\ pc = "loop_head"
    /\ Len(output) = 4001
    /\ SubSeq(output, 4001, 4001) = "z"
    /\ Len(Last(history.messages).content) = 4000
    /\ Len(Last(events).text) = 4001

\* the messages get_messages() returned to the stream_chat call just made
Returned == Last(stream_log).messages

SystemAt(msgs) == {i \in 1..Len(msgs) : msgs[i].role = "system"}

GetMessagesStep == pc = "loop_head" /\ pc' = "await_chunk"

\* C22: get_messages() returns the stored messages in stored order, after
\* one system message holding the prompt when the prompt is non-empty and
\* after none when it is empty; no other index holds a system message; the
\* stored messages, the prompt and the budget are as before the call, and no
\* stored message has the system role.
C22_Step ==
    GetMessagesStep =>
        LET got == Last(stream_log').messages
            n   == Len(history.messages)
        IN /\ IF history.system_prompt = ""
              THEN /\ Len(got) = n
                   /\ \A i \in 1..n : got[i] = history.messages[i]
                   /\ SystemAt(got) = {}
              ELSE /\ Len(got) = n + 1
                   /\ got[1].role = "system"
                   /\ got[1].content = history.system_prompt
                   /\ \A i \in 1..n : got[i + 1] = history.messages[i]
                   /\ SystemAt(got) = {1}
           /\ history'.messages = history.messages
           /\ history'.system_prompt = history.system_prompt
           /\ history'.max_tokens = history.max_tokens

C22_State == SystemAt(history.messages) = {}

C22_GetMessages == []C22_State /\ [][C22_Step]_vars

C22_Witness ==
    /\ pc = "await_chunk"
    /\ history.system_prompt # ""
    /\ Len(history.messages) >= 3
    /\ Len(Returned) = Len(history.messages) + 1
    /\ Returned[2].role = "tool"

C22_WitnessNoPrompt ==
    /\ pc = "await_chunk"
    /\ history.system_prompt = ""
    /\ Len(history.messages) >= 3
    /\ Len(Returned) = Len(history.messages)

\* the stream_chat call of the run has finished, normally or by raising
StreamOver == stream_log # <<>> /\ Last(stream_log).status \in {"ended", "raised"}
StreamEnded == stream_log # <<>> /\ Last(stream_log).status = "ended"

\* how many lines of the response are in S
CountIn(lines, S) == Cardinality({i \in 1..Len(lines) : lines[i] \in S})

\* the lines of the local-inference provider that carry the tool request
RequestLines == {O_TAG, O_NATIVE, O_NATIVE_STR, O_BOTH}

\* C23: a response of the local-inference provider that carries one tool
\* request, as a native entry, as an inline tag or as both in one chunk, is
\* delivered by stream_chat (XML fallback on) as exactly one ToolCall.
C23_Original ==
    (/\ wire.op = "stream_chat"
     /\ wire.variant = "ollama"
     /\ wire.use_xml_fallback
     /\ CountIn(wire.lines, RequestLines) = 1
     /\ CountIn(wire.lines, {O_NATIVE_BAD}) = 0
     /\ StreamEnded)
    => Len(Last(stream_log).tcs) = 1

\* the response of a backend other than the local-inference one carries a
\* tool request in a chunk that stream_chat reads
CarriesRequest ==
    /\ wire.op = "stream_chat"
    /\ \/ /\ wire.variant \in SseVariants
          /\ \E i \in 1..Len(wire.lines) :
                /\ wire.lines[i] = S_TOOL
                /\ \A j \in 1..(i - 1) : wire.lines[j] # S_DONE
       \/ /\ wire.variant = "anthropic"
          /\ \E i \in 1..Len(wire.sdk_events) : wire.sdk_events[i] = A_TOOL_USE

\* C24: when the response streamed to the fast-cloud, generic-compatible or
\* hosted-model backend carries a tool request, stream_chat delivers a
\* ToolCall for it and the run executes the tool.
C24_Original ==
    (CarriesRequest /\ StreamEnded)
    => /\ Last(stream_log).tcs # <<>>
       /\ \A i \in 1..Len(Last(stream_log).tcs) :
             /\ Last(stream_log).tcs[i].name = "nmap"
             /\ Last(stream_log).tcs[i].arguments = DictArgs
       /\ pc = "done" => exec_log # <<>>

\* the lines before the first [DONE] line
BeforeDone(lines) ==
    LET done == {i \in 1..Len(lines) : lines[i] = S_DONE}
    IN IF done = {} THEN lines
       ELSE SubSeq(lines, 1, (CHOOSE i \in done : \A j \in done : i <= j) - 1)
HasContent(line) == line \in {S_TEXT_A, S_TEXT_B}
DeltaContent(line) == IF line = S_TEXT_A THEN "a" ELSE "b"
\* the non-empty delta contents of the well-formed lines before [DONE]
ExpectedTexts(lines) ==
    LET kept == SelectSeq(BeforeDone(lines), HasContent)
    IN [i \in 1..Len(kept) |-> DeltaContent(kept[i])]

\* C25: once stream_chat of an SSE-style backend is over, it has emitted
\* exactly the non-empty delta contents of the well-formed data lines before
\* the first [DONE] line, in line order.
C25_Original ==
    (wire.op = "stream_chat" /\ wire.variant \in SseVariants /\ StreamOver)
    => Last(stream_log).texts = ExpectedTexts(wire.lines)

\* C26: a chunk that decodes but lacks expected fields does not make
\* stream_chat raise, and the run does not end in AgentFailed.
C26_Original ==
    /\ stream_log # <<>> => Last(stream_log).status # "raised"
    /\ \A i \in 1..Len(events) : events[i].type # "AgentError"

\* why the exchange of a chat() call fails, "" when it does not
ChatCause(w) ==
    IF w.net = "down" THEN "network unreachable"
    ELSE IF w.status < 200 \/ w.status >= 300 THEN "non-2xx status"
    ELSE IF w.body \in {B_UNDECODABLE} THEN "malformed JSON"
    ELSE IF \/ w.variant = "ollama" /\ w.body \notin {B_O_OK}
            \/ w.variant \in SseVariants /\ w.body \notin {B_S_OK}
         THEN "missing fields"
    ELSE ""

\* the exchange of the same call when the network is unreachable
Unreachable(w) == [w EXCEPT !.net = "down"]

ChatReturned == wire.op = "chat" /\ wire.result # Pending

\* C27: a chat() call whose exchange fails for one of the four causes raises,
\* and raises the exception type the variant raises when the network is
\* unreachable; it never returns an AIResponse.
C27_Original ==
    (ChatReturned /\ ChatCause(wire) # "")
    => /\ wire.result.kind = "raised"
       /\ wire.result.exc = chat(Unreachable(wire)).exc

HealthReturned == wire.op = "health_check" /\ wire.result # Pending

\* the probe fails: no credential where one is needed, no connection, or a
\* status other than 200
ProbeFails(w) ==
    \/ w.variant \in {"groq", "anthropic"} /\ ~w.api_key
    \/ w.net = "down"
    \/ w.status # 200

\* the message the variant returns for a healthy probe
HealthyMessage(w) ==
    health_check([w EXCEPT !.api_key = TRUE, !.net = "up", !.status = 200,
                           !.body = IF w.variant = "anthropic" THEN B_A_OK ELSE B_TAGS]).text

\* C28: health_check() returns a pair and does not raise; a failed probe is
\* returned with false and with a message other than that of a healthy one.
C28_Original ==
    HealthReturned
    => /\ wire.result.kind = "returned"
       /\ ProbeFails(wire) =>
             /\ ~wire.result.healthy
             /\ wire.result.text # HealthyMessage(wire)

\* the messages get_messages() returned for the stream_chat call, and the
\* tool call the agent recorded under an id
Internal == Last(stream_log).messages
Recorded(id) == CHOOSE tc \in RecordedCalls : tc.id = id
\* json.dumps of the arguments of the recorded calls
ArgumentsJson(id) ==
    CASE id = "c1" -> "{\"target\": \"t\"}"
      [] id = "c2" -> "{\"a\\\"b\": \"x\\\\y, \\\"z\\\": \", \"k\": \"}\"}"
      [] id = "c3" -> "{}"
WithCalls(m) == m.role = "assistant" /\ m.tool_calls # <<>>

\* C29: the assistant message the agent records for a tool call carries its
\* arguments as a JSON string, which is what an SSE-style backend sends;
\* normalised for the local-inference backend the call has no type key and
\* its arguments are the mapping the ToolCall had, and a tool message has
\* neither tool_call_id nor name; every other message is sent as it is.
C29_RoundTrip ==
    (wire.sent = "payload" /\ wire.variant \in {"ollama", "groq"})
    => /\ Len(wire.messages) = Len(Internal)
       /\ \A i \in 1..Len(Internal) :
            LET m == Internal[i]
                sent == wire.messages[i]
            IN /\ sent.role = m.role
               /\ sent.content = m.content
               /\ WithCalls(m) =>
                    /\ Len(sent.tool_calls) = Len(m.tool_calls)
                    /\ \A j \in 1..Len(m.tool_calls) :
                         LET rec == m.tool_calls[j]
                             out == sent.tool_calls[j]
                         IN /\ rec.type = "function"
                            /\ rec.function.arguments = ArgumentsJson(rec.id)
                            /\ out.id = rec.id
                            /\ out.function.name = Recorded(rec.id).name
                            /\ IF wire.variant = "groq"
                               THEN /\ DOMAIN out = {"id", "type", "function"}
                                    /\ out.function.arguments = ArgumentsJson(rec.id)
                               ELSE /\ DOMAIN out = {"id", "function"}
                                    /\ out.function.arguments = Recorded(rec.id).arguments
               /\ m.role = "tool" =>
                    DOMAIN sent = IF wire.variant = "groq"
                                  THEN {"role", "tool_call_id", "name", "content"}
                                  ELSE {"role", "content"}
               /\ (~WithCalls(m) /\ m.role # "tool") => DOMAIN sent = {"role", "content"}

C29_Witness ==
    /\ wire.variant = "ollama"
    /\ wire.sent = "payload"
    /\ \E i \in 1..Len(Internal) :
          /\ WithCalls(Internal[i])
          /\ Internal[i].tool_calls[1].id = "c2"
          /\ wire.messages[i].tool_calls[1].function.arguments = QuotedArgs
    /\ \E i \in 1..Len(Internal) : Internal[i].role = "tool"

NotSystem(m) == m.role # "system"

\* C30: the hosted-model conversion returns no system-role entry and the
\* system content apart; every other message appears once and in order; a
\* tool message becomes a user message with one tool_result block for its
\* tool_call_id; an assistant message with tool calls becomes a block list
\* with a text block only when its content is non-empty, then one tool_use
\* block per call with the call's id, name and decoded arguments.
C30_Convert ==
    (wire.variant = "anthropic" /\ wire.sent # "nothing")
    => /\ wire.sent = "payload"
       /\ wire.system = IF history.system_prompt = ""
                        THEN [is_none |-> TRUE, content |-> ""]
                        ELSE [is_none |-> FALSE, content |-> history.system_prompt]
       /\ Len(wire.messages) = Len(SelectSeq(Internal, NotSystem))
       /\ \A k \in 1..Len(wire.messages) :
            LET m == SelectSeq(Internal, NotSystem)[k]
                c == wire.messages[k]
                text == IF m.content = "" THEN 0 ELSE 1
            IN /\ c.role # "system"
               /\ DOMAIN c = {"role", "content"}
               /\ CASE m.role = "tool" ->
                         /\ c.role = "user"
                         /\ c.content = <<[type |-> "tool_result",
                                           tool_use_id |-> m.tool_call_id,
                                           content |-> m.content]>>
                    [] WithCalls(m) ->
                         /\ c.role = "assistant"
                         /\ Len(c.content) = text + Len(m.tool_calls)
                         /\ text = 1 => c.content[1] = [type |-> "text", text |-> m.content]
                         /\ \A j \in 1..Len(m.tool_calls) :
                               c.content[text + j] =
                                   [type |-> "tool_use", id |-> m.tool_calls[j].id,
                                    name |-> Recorded(m.tool_calls[j].id).name,
                                    input |-> Recorded(m.tool_calls[j].id).arguments]
                    [] OTHER ->
                         /\ c.role = m.role
                         /\ c.content = m.content

C30_Witness ==
    /\ wire.variant = "anthropic"
    /\ wire.sent = "payload"
    /\ ~wire.system.is_none
    /\ Len(wire.messages) = 4
    /\ wire.messages[1].role = "assistant"
    /\ Len(wire.messages[1].content) = 1
    /\ wire.messages[1].content[1].type = "tool_use"
    /\ wire.messages[2].role = "assistant"
    /\ Len(wire.messages[2].content) = 3
    /\ wire.messages[2].content[2].input = QuotedArgs
    /\ wire.messages[3].content[1].type = "tool_result"

\* the tags of a text that decode to an object with a non-empty name, and
\* the call each of them asks for
Named(body) == body \in {T_ARGS, T_PARAMS, T_BOTH_KEYS, T_NEITHER}
ExpectedCall(body) ==
    CASE body = T_ARGS -> [name |-> "nmap", arguments |-> DictArgs]
      [] body = T_PARAMS -> [name |-> "nmap", arguments |-> DictArgs]
      [] body = T_BOTH_KEYS -> [name |-> "whois", arguments |-> EmptyArgs]
      [] body = T_NEITHER -> [name |-> "whois", arguments |-> EmptyArgs]
ExpectedCalls(tags) ==
    LET named == SelectSeq(tags, Named)
    IN [i \in 1..Len(named) |-> ExpectedCall(named[i])]
XmlParsed == wire.op = "_parse_xml_tool_calls" /\ wire.result # NotParsed

\* C31: _parse_xml_tool_calls returns, in order of appearance, one ToolCall
\* for every tag whose body is decodable JSON with a non-empty name, with
\* the value of `arguments`, else of `parameters`, else an empty mapping; a
\* tag with no name or an undecodable body is discarded silently and does
\* not affect the other tags.
C31_Original ==
    XmlParsed
    => /\ ~wire.result.raised
       /\ [i \in 1..Len(wire.result.tool_calls) |->
              [name |-> wire.result.tool_calls[i].name,
               arguments |-> wire.result.tool_calls[i].arguments]]
            = ExpectedCalls(wire.tags)

\* execute_from_ai has returned or raised
Executed == wire.op = "execute_from_ai" /\ wire.result # Pending
\* the tool did not run to a successful ToolResult
FailedExecution ==
    \/ wire.tool_name # "nmap"
    \/ ~HasKey(wire.arguments, "target")
    \/ wire.outcome.raises
    \/ ~wire.outcome.result.success

\* C32: execute_from_ai never raises, for every tool name and every
\* arguments mapping, and every failed execution is returned as a string
\* beginning with "[Error] ".
C32_Original ==
    Executed
    => /\ wire.result.kind = "returned"
       /\ FailedExecution => StartsWith(wire.result.text, "[Error] ")

\* the ConfirmationRequired events of the run
ConfirmEvents == {k \in EventIdx : events[k].type = "ConfirmationRequired"}

\* every gate is the gate of one event, and the gate the agent waits on is
\* the one of the event of the call it is handling
C33_State ==
    /\ \A j, k \in ConfirmEvents : j # k => events[j].gate # events[k].gate
    /\ \A k \in ConfirmEvents : events[k].gate \in 1..Len(gates)
    /\ \A g \in 1..Len(gates) : \E k \in ConfirmEvents : events[k].gate = g
    /\ pc = "await_gate"
          => /\ Last(events).type = "ConfirmationRequired"
             /\ Last(events).call_no = call_no
             /\ Last(events).call_id = CurrentCall.id
             /\ Last(events).gate = Len(gates)

\* the step that emits the event makes its gate, unset and unconfirmed; the
\* step that leaves the wait decides on the gate of the current call's
\* event; the agent writes to no gate
C33_Step ==
    /\ (Len(events') = Len(events) + 1 /\ Last(events').type = "ConfirmationRequired")
          => /\ Last(events').gate \notin 1..Len(gates)
             /\ Last(events').gate \in 1..Len(gates')
             /\ ~gates'[Last(events').gate].is_set
             /\ ~gates'[Last(events').gate].confirmed
             /\ \A g \in 1..Len(gates) : gates'[g] = gates[g]
    /\ (pc = "await_gate" /\ pc' \notin {"await_gate", "torn_down"})
          => /\ \E k \in ConfirmIdx(call_no) :
                   /\ gates[events[k].gate].is_set
                   /\ (pc' = "yielded_cancel") <=> ~gates[events[k].gate].confirmed
             /\ gates' = gates
    /\ pc # "await_gate" => gates' = gates \/ Len(gates') = Len(gates) + 1

\* C33: every ConfirmationRequired event carries a gate made for that tool
\* call alone: distinct from the gate of every earlier event of the run,
\* unset with confirmed = false when the event is emitted, and after it is
\* resolved the agent does not wait on it or read its decision for another
\* tool call.
C33_FreshGate == []C33_State /\ [][C33_Step]_vars

\* two tool calls of a run were confirmed, the first declined and the
\* second accepted, each on its own gate
C33_Witness ==
    \E j, k \in ConfirmEvents :
        /\ j < k
        /\ events[j].call_no # events[k].call_no
        /\ gates[events[j].gate].is_set
        /\ ~gates[events[j].gate].confirmed
        /\ gates[events[k].gate].is_set
        /\ gates[events[k].gate].confirmed
        /\ pc = "done"

\* the tool-result messages the run has stored
ToolMessages == SelectSeq(history.messages, LAMBDA m : m.role = "tool")

\* C34: within one run no two ToolCalls delivered to the agent carry the
\* same id, whatever ids the provider's responses contain, and no two
\* tool-result messages of the run share a tool_call_id.
C34_Original ==
    /\ \A i, j \in 1..Len(DeliveredCalls(stream_log)) :
          i # j => DeliveredCalls(stream_log)[i].id # DeliveredCalls(stream_log)[j].id
    /\ \A i, j \in 1..Len(ToolMessages) :
          i # j => ToolMessages[i].tool_call_id # ToolMessages[j].tool_call_id

\* a step in which the backend is called
BackendCall == wire.op = "stream_chat" /\ wire.sent = "nothing" /\ wire'.sent # "nothing"

\* the call leaves the fields of the instance, the caller's list and its
\* messages, and the history as they were
C35_Step ==
    BackendCall
    => /\ wire'.self = wire.self
       /\ wire'.passed = Passed
       /\ wire'.earlier = wire.earlier
       /\ history' = history

\* the history is what was passed, before and after every call, and the
\* second call sends what the first sent
C35_State ==
    (wire.op = "stream_chat" /\ wire.sent # "nothing")
    => /\ wire.passed = AsDicts(get_messages(history))
       /\ wire.earlier # <<>> => Request(wire) = wire.earlier[1]

Terminal == events # <<>> /\ Last(events).type \in {"AgentDone", "AgentError"}

\* the calls of stream_chat and what AgentDoneEvent reports of them
IterationsReported ==
    /\ stream_calls <= max_iterations
    /\ \A j \in EventIdx :
          events[j].type = "AgentDone"
          => /\ events[j].iterations = stream_calls
             /\ max_iterations = 0
                   => /\ stream_calls = 0
                      /\ events = <<TextChunkEvent(CapMarker(0)),
                                    AgentDoneEvent(CapMarker(0), 0)>>

\* C36: when every stream ends, every tool execution returns and every
\* gate is resolved, the run reaches its terminal event; it makes at most
\* max_iterations stream calls and AgentDoneEvent reports their number (0
\* when max_iterations is 0, the run then completing with the cap marker
\* only).
C36_Original == []IterationsReported /\ <>Terminal

\* the tool calls of the assistant message at q are answered by the
\* messages that follow it, one tool message per call and in their order
Answered(msgs, q) ==
    \A i \in 1..Len(msgs[q].tool_calls) :
        /\ q + i <= Len(msgs)
        /\ msgs[q + i].role = "tool"
        /\ msgs[q + i].tool_call_id = msgs[q].tool_calls[i].id
\* the tool message at p answers a call of the last message before it that
\* is not a tool message
Answers(msgs, p) ==
    \E q \in 1..(p - 1) :
        /\ msgs[q].role = "assistant"
        /\ \A r \in (q + 1)..(p - 1) : msgs[r].role = "tool"
        /\ p - q <= Len(msgs[q].tool_calls)
WellFormedConversation(msgs) ==
    \A p \in 1..Len(msgs) :
        /\ msgs[p].role = "assistant" => Answered(msgs, p)
        /\ msgs[p].role = "tool" => Answers(msgs, p)

\* C37: for any sequence of runs on one history, runs torn down part-way
\* and runs whose prune evicted messages included, every message list the
\* agent passes to the backend is a well-formed tool conversation: each
\* recorded tool call is answered by one later tool message, in the order
\* of the calls and before the next assistant or user message.
C37_Original == pc = "loop_head" => WellFormedConversation(get_messages(history))

\* a step of a run after its add_user and prune
InRun == pc # "start"

\* C38: within one run, after the initial add_user and prune, the history
\* is append-only: every later mutation appends one whole message at the
\* end, no stored message is modified or removed and prune is not applied
\* again, so every earlier history of the run is a prefix of the later ones
\* (and the token estimate may exceed the budget during the run).
C38_Step ==
    InRun
    => /\ history'.max_tokens = history.max_tokens
       /\ history'.system_prompt = history.system_prompt
       /\ IsPrefix(history.messages, history'.messages)
       /\ Len(history'.messages) <= Len(history.messages) + 1

C38_AppendOnly == [][C38_Step]_vars

\* a run has stored a tool result on a history of more than two messages
\* that is over its budget, where prune would evict
C38_Witness ==
    /\ InRun
    /\ Len(history.messages) > 2
    /\ Last(history.messages).role = "tool"
    /\ EstimatedTokens(history) > history.max_tokens
    /\ prune(history) # history

\* the last iteration of the run delivered no tool call
EndsOnText == stream_log # <<>> /\ Last(stream_log).tcs = <<>>

\* C39: AgentDoneEvent.final_response holds the text of the final
\* iteration only: when the run ends on an iteration without tool calls it
\* is the concatenation of that iteration's text chunks, whatever text the
\* earlier iterations streamed with their tool calls; when the run ends by
\* exhausting max_iterations it is exactly the iteration-cap marker.
C39_FinalResponse ==
    \A j \in EventIdx :
        events[j].type = "AgentDone"
        => /\ j = Len(events)
           /\ events[j].text =
                 IF EndsOnText THEN ConcatAll(Last(stream_log).texts)
                 ELSE "\n\n*[Agent reached max iterations (" \o ToString(max_iterations) \o ")]*"
           /\ EndsOnText
                 => events[j].text =
                       ConcatAll([k \in 1..Len(Last(stream_log).texts) |->
                                     events[j - Len(Last(stream_log).texts) + k - 1].text])

\* a run completed by exhausting its one iteration, in which text and a
\* tool call were streamed
C39_Witness ==
    /\ pc = "done"
    /\ Last(events).type = "AgentDone"
    /\ max_iterations = 1
    /\ ConcatAll(stream_log[1].texts) = "a"
    /\ stream_log[1].tcs # <<>>
    /\ Last(events).text # ""

\* a run of two iterations completed: the first streamed a tool call, the
\* second text only
C39_WitnessText ==
    /\ pc = "done"
    /\ Last(events).type = "AgentDone"
    /\ Len(stream_log) = 2
    /\ stream_log[1].tcs # <<>>
    /\ stream_log[2].texts = <<"b">>
    /\ Last(events).text = "b"

====
